---------------------------- MODULE Spec2Model ----------------------------
(***************************************************************************)
(* A model of sqlc-gen-crystal's code generation engine                    *)
(* (internal/crystal/generator.go, types.go, strings.go, templates).       *)
(*                                                                         *)
(* Go strings are modelled as sequences of one-character strings, so that  *)
(* prefix, suffix and substring tests, case conversion and the signature   *)
(* concatenation are computed the way the code computes them.              *)
(***************************************************************************)
EXTENDS Integers, Sequences, FiniteSets, TLC

----------------------------------------------------------------------------
(* Characters, in ASCII order (only the characters the model uses).        *)

AsciiSeq ==
  << " ", "$", "(", ")", "*", ",", "-", ".", "/",
     "0", "1", "2", "3", "4", "5", "6", "7", "8", "9",
     ":", ";", "=", "?",
     "A", "B", "C", "D", "E", "F", "G", "H", "I", "J", "K", "L", "M",
     "N", "O", "P", "Q", "R", "S", "T", "U", "V", "W", "X", "Y", "Z",
     "_",
     "a", "b", "c", "d", "e", "f", "g", "h", "i", "j", "k", "l", "m",
     "n", "o", "p", "q", "r", "s", "t", "u", "v", "w", "x", "y", "z" >>

Chars == { AsciiSeq[i] : i \in DOMAIN AsciiSeq }

Ord == [ c \in Chars |-> CHOOSE i \in DOMAIN AsciiSeq : AsciiSeq[i] = c ]

isUpperCh(c) == Ord[c] >= Ord["A"] /\ Ord[c] <= Ord["Z"]
isLowerCh(c) == Ord[c] >= Ord["a"] /\ Ord[c] <= Ord["z"]
isDigitCh(c) == Ord[c] >= Ord["0"] /\ Ord[c] <= Ord["9"]
isSpaceCh(c) == c = " "

toUpperCh(c) == IF isLowerCh(c) THEN AsciiSeq[Ord[c] - (Ord["a"] - Ord["A"])] ELSE c
toLowerCh(c) == IF isUpperCh(c) THEN AsciiSeq[Ord[c] + (Ord["a"] - Ord["A"])] ELSE c

----------------------------------------------------------------------------
(* The functions of Go's strings package that the generator uses.          *)

\* A function on 1..n written as a sequence.
AsSeq(f) == f \o <<>>

ToUpper(s) == AsSeq([ i \in DOMAIN s |-> toUpperCh(s[i]) ])
ToLower(s) == AsSeq([ i \in DOMAIN s |-> toLowerCh(s[i]) ])

HasPrefix(s, p) == Len(p) <= Len(s) /\ SubSeq(s, 1, Len(p)) = p
HasSuffix(s, p) == Len(p) <= Len(s) /\ SubSeq(s, Len(s) - Len(p) + 1, Len(s)) = p

\* The positions at which sub occurs in s.
Occurrences(s, sub) ==
  { i \in 1..(Len(s) - Len(sub) + 1) : SubSeq(s, i, i + Len(sub) - 1) = sub }

Contains(s, sub) == Occurrences(s, sub) # {}

\* strings.Index, 1-based; 0 when sub does not occur in s.
Index(s, sub) ==
  LET first(occ) == IF occ = {} THEN 0 ELSE CHOOSE i \in occ : \A j \in occ : i <= j
  IN first(Occurrences(s, sub))

TrimSuffix(s, p) == IF HasSuffix(s, p) THEN SubSeq(s, 1, Len(s) - Len(p)) ELSE s

RECURSIVE TrimLeftSpace(_)
TrimLeftSpace(s) ==
  IF s # <<>> /\ isSpaceCh(Head(s)) THEN TrimLeftSpace(Tail(s)) ELSE s

RECURSIVE TrimRightSpace(_)
TrimRightSpace(s) ==
  IF s # <<>> /\ isSpaceCh(s[Len(s)]) THEN TrimRightSpace(SubSeq(s, 1, Len(s) - 1)) ELSE s

TrimSpace(s) == TrimRightSpace(TrimLeftSpace(s))

\* strings.Trim(s, cutset) for a one-character cutset.
RECURSIVE TrimLeftCh(_, _)
TrimLeftCh(s, c) == IF s # <<>> /\ Head(s) = c THEN TrimLeftCh(Tail(s), c) ELSE s

RECURSIVE TrimRightCh(_, _)
TrimRightCh(s, c) ==
  IF s # <<>> /\ s[Len(s)] = c THEN TrimRightCh(SubSeq(s, 1, Len(s) - 1), c) ELSE s

Trim(s, c) == TrimRightCh(TrimLeftCh(s, c), c)

\* strings.ReplaceAll for a one-character old and new.
ReplaceAllCh(s, old, new) ==
  AsSeq([ i \in DOMAIN s |-> IF s[i] = old THEN new ELSE s[i] ])

\* strings.Fields: the maximal runs of non-space characters.
RECURSIVE Fields(_)
Fields(s) ==
  LET fieldsOf(t) ==
        IF t = <<>> THEN <<>>
        ELSE LET cut(n) == << SubSeq(t, 1, n) >> \o Fields(SubSeq(t, n + 1, Len(t)))
             IN cut(IF \E i \in DOMAIN t : isSpaceCh(t[i])
                    THEN (CHOOSE i \in DOMAIN t :
                            isSpaceCh(t[i]) /\ \A j \in 1..(i - 1) : ~isSpaceCh(t[j])) - 1
                    ELSE Len(t))
  IN fieldsOf(TrimLeftSpace(s))

\* strings.Split(s, sep) for a non-empty sep.
RECURSIVE Split(_, _)
Split(s, sep) ==
  LET cut(i) == IF i = 0 THEN << s >>
                ELSE << SubSeq(s, 1, i - 1) >> \o Split(SubSeq(s, i + Len(sep), Len(s)), sep)
  IN cut(Index(s, sep))

\* Byte-wise comparison of two strings (Go's < on strings).
RECURSIVE StrLess(_, _)
StrLess(a, b) ==
  IF b = <<>> THEN FALSE
  ELSE IF a = <<>> THEN TRUE
  ELSE IF Head(a) # Head(b) THEN Ord[Head(a)] < Ord[Head(b)]
  ELSE StrLess(Tail(a), Tail(b))

\* fmt.Sprintf("%d", n) for 0 <= n <= 99.
Digits == << "0", "1", "2", "3", "4", "5", "6", "7", "8", "9" >>
Itoa(n) == IF n < 10 THEN << Digits[n + 1] >>
           ELSE << Digits[(n \div 10) + 1], Digits[(n % 10) + 1] >>

----------------------------------------------------------------------------
(* internal/crystal/strings.go                                             *)

\* matchFirstCap = "(.)([A-Z][a-z]+)", replaced by "${1}_${2}": leftmost
\* matches, not overlapping, the run of lower-case letters taken greedily.
LowerRunEnd(s, j) ==
  CHOOSE e \in j..Len(s) :
    /\ \A k \in j..e : isLowerCh(s[k])
    /\ (e = Len(s) \/ ~isLowerCh(s[e + 1]))

RECURSIVE replaceFirstCap(_, _)
replaceFirstCap(s, i) ==
  IF i > Len(s) THEN <<>>
  ELSE IF i + 2 <= Len(s) /\ isUpperCh(s[i + 1]) /\ isLowerCh(s[i + 2])
       THEN LET e == LowerRunEnd(s, i + 2)
            IN << s[i], "_" >> \o SubSeq(s, i + 1, e) \o replaceFirstCap(s, e + 1)
       ELSE << s[i] >> \o replaceFirstCap(s, i + 1)

\* matchAllCap = "([a-z0-9])([A-Z])", replaced by "${1}_${2}".
RECURSIVE replaceAllCap(_, _)
replaceAllCap(s, i) ==
  IF i > Len(s) THEN <<>>
  ELSE IF i + 1 <= Len(s) /\ (isLowerCh(s[i]) \/ isDigitCh(s[i])) /\ isUpperCh(s[i + 1])
       THEN << s[i], "_", s[i + 1] >> \o replaceAllCap(s, i + 2)
       ELSE << s[i] >> \o replaceAllCap(s, i + 1)

toSnakeCase(str) == ToLower(replaceAllCap(replaceFirstCap(str, 1), 1))

capitalizeWord(word) ==
  IF word = <<>> THEN word
  ELSE << toUpperCh(Head(word)) >> \o ToLower(Tail(word))

RECURSIVE capitalizeWords(_)
capitalizeWords(words) ==
  IF words = <<>> THEN <<>>
  ELSE capitalizeWord(Head(words)) \o capitalizeWords(Tail(words))

toPascalCase(str) ==
  IF ~Contains(str, << "_" >>) /\ ~Contains(str, << "-" >>) /\ ~Contains(str, << " " >>)
  THEN IF Len(str) > 0 THEN << toUpperCh(Head(str)) >> \o Tail(str) ELSE str
  ELSE capitalizeWords(Fields(ReplaceAllCh(ReplaceAllCh(str, "_", " "), "-", " ")))

toConstantCase(str) == ToUpper(toSnakeCase(str))

\* The irregular plurals of singularize, as (plural, singular) pairs.
irregulars ==
  { << <<"c","h","i","l","d","r","e","n">>, <<"c","h","i","l","d">> >>,
    << <<"p","e","o","p","l","e">>, <<"p","e","r","s","o","n">> >>,
    << <<"m","e","n">>, <<"m","a","n">> >>,
    << <<"w","o","m","e","n">>, <<"w","o","m","a","n">> >>,
    << <<"f","e","e","t">>, <<"f","o","o","t">> >>,
    << <<"t","e","e","t","h">>, <<"t","o","o","t","h">> >>,
    << <<"g","e","e","s","e">>, <<"g","o","o","s","e">> >>,
    << <<"m","i","c","e">>, <<"m","o","u","s","e">> >>,
    << <<"d","i","c","e">>, <<"d","i","e">> >> }

\* strings.Title of a word made of letters only.
Title(word) == IF word = <<>> THEN word ELSE << toUpperCh(Head(word)) >> \o Tail(word)

singularize(word) ==
  IF Len(word) <= 1 THEN word
  ELSE
    LET rule(lower, n) ==
          IF \E p \in irregulars : p[1] = lower
          THEN LET cased(singular) ==
                     IF ToUpper(word) = word THEN ToUpper(singular)
                     ELSE IF Title(word) = word THEN Title(singular)
                     ELSE singular
               IN cased((CHOOSE p \in irregulars : p[1] = lower)[2])
          ELSE IF HasSuffix(lower, <<"i","e","s">>) /\ n > 3
          THEN SubSeq(word, 1, n - 3) \o <<"y">>
          ELSE IF HasSuffix(lower, <<"v","e","s">>) /\ n > 3
          THEN SubSeq(word, 1, n - 3) \o <<"f","e">>
          ELSE IF HasSuffix(lower, <<"s","e","s">>) /\ n > 3
          THEN SubSeq(word, 1, n - 2)
          ELSE IF /\ HasSuffix(lower, <<"e","s">>) /\ n > 2
                  /\ LET sibilant(beforeEs) ==
                           \/ toLowerCh(beforeEs[Len(beforeEs)]) \in { "x", "s", "z" }
                           \/ HasSuffix(ToLower(beforeEs), <<"c","h">>)
                           \/ HasSuffix(ToLower(beforeEs), <<"s","h">>)
                     IN sibilant(SubSeq(word, 1, n - 2))
          THEN SubSeq(word, 1, n - 2)
          ELSE IF HasSuffix(lower, <<"s">>) /\ n > 1
          THEN SubSeq(word, 1, n - 1)
          ELSE word
    IN rule(ToLower(word), Len(word))

----------------------------------------------------------------------------
(* The request (plugin.GenerateRequest) and the generator's state.         *)

VARIABLES
  req,               \* g.req: Engine, HasCatalog, Schemas, Queries
  options,           \* g.options
  signatureToStruct, \* g.signatureToStruct: signature -> struct name
  structs,           \* generateModels: struct name -> crystalStruct
  fieldSignatures,   \* generateModels: signature -> struct name
  pc,                \* the statement Generate is at
  idx,               \* the index of the table or query the current loop is at
  files,             \* resp.Files
  queries,           \* generateQueries: the crystalQuery list it rendered
  prevFiles,         \* the files of the previous run on the same request
  call               \* one call of a generated query method (Crystal runtime)

vars == << req, options, signatureToStruct, structs, fieldSignatures, pc, idx,
           files, queries, prevFiles, call >>

\* plugin.Column; a nil Type is HasType = FALSE, a nil EmbedTable is
\* HasEmbed = FALSE, a nil Table is TableName = "".
Column(name, typeName, notNull) ==
  [ Name |-> name, HasType |-> TRUE, TypeName |-> typeName, NotNull |-> notNull,
    IsArray |-> FALSE, IsSqlcSlice |-> FALSE, HasEmbed |-> FALSE,
    EmbedTable |-> <<>>, TableName |-> <<>>, TableAlias |-> <<>> ]

----------------------------------------------------------------------------
(* internal/crystal/types.go                                               *)

postgresType(sqlType) ==
  CASE sqlType \in { <<"i","n","t","8">>, <<"b","i","g","i","n","t">>, <<"b","i","g","s","e","r","i","a","l">> } -> <<"I","n","t","6","4">>
    [] sqlType \in { <<"i","n","t","4">>, <<"i","n","t">>, <<"i","n","t","e","g","e","r">>, <<"s","e","r","i","a","l">> } -> <<"I","n","t","3","2">>
    [] sqlType \in { <<"i","n","t","2">>, <<"s","m","a","l","l","i","n","t">>, <<"s","m","a","l","l","s","e","r","i","a","l">> } -> <<"I","n","t","1","6">>
    [] sqlType \in { <<"n","u","m","e","r","i","c">>, <<"d","e","c","i","m","a","l">> } -> <<"F","l","o","a","t","6","4">>
    [] sqlType \in { <<"r","e","a","l">>, <<"f","l","o","a","t","4">> } -> <<"F","l","o","a","t","3","2">>
    [] sqlType \in { <<"f","l","o","a","t","8">>, <<"d","o","u","b","l","e"," ","p","r","e","c","i","s","i","o","n">> } -> <<"F","l","o","a","t","6","4">>
    [] sqlType \in { <<"b","o","o","l">>, <<"b","o","o","l","e","a","n">> } -> <<"B","o","o","l">>
    [] sqlType \in { <<"t","e","x","t">>, <<"v","a","r","c","h","a","r">>, <<"c","h","a","r">>, <<"b","p","c","h","a","r">>, <<"c","i","t","e","x","t">>, <<"n","a","m","e">> } -> <<"S","t","r","i","n","g">>
    [] sqlType \in { <<"t","i","m","e","s","t","a","m","p">>, <<"t","i","m","e","s","t","a","m","p","t","z">>, <<"d","a","t","e">>, <<"t","i","m","e">>, <<"t","i","m","e","t","z">> } -> <<"T","i","m","e">>
    [] sqlType = <<"i","n","t","e","r","v","a","l">> -> <<"T","i","m","e",":",":","S","p","a","n">>
    [] sqlType = <<"u","u","i","d">> -> <<"S","t","r","i","n","g">>
    [] sqlType \in { <<"j","s","o","n">>, <<"j","s","o","n","b">> } -> <<"J","S","O","N",":",":","A","n","y">>
    [] sqlType = <<"b","y","t","e","a">> -> <<"B","y","t","e","s">>
    [] sqlType \in { <<"i","n","e","t">>, <<"c","i","d","r">>, <<"m","a","c","a","d","d","r">>, <<"m","a","c","a","d","d","r","8">> } -> <<"S","t","r","i","n","g">>
    [] sqlType \in { <<"p","o","i","n","t">>, <<"l","i","n","e">>, <<"l","s","e","g">>, <<"b","o","x">>, <<"p","a","t","h">>, <<"p","o","l","y","g","o","n">>, <<"c","i","r","c","l","e">> } -> <<"S","t","r","i","n","g">>
    [] sqlType = <<"m","o","n","e","y">> -> <<"F","l","o","a","t","6","4">>
    [] sqlType \in { <<"b","i","t">>, <<"b","i","t"," ","v","a","r","y","i","n","g">>, <<"v","a","r","b","i","t">> } -> <<"S","t","r","i","n","g">>
    [] sqlType \in { <<"i","n","t","4","r","a","n","g","e">>, <<"i","n","t","8","r","a","n","g","e">>, <<"n","u","m","r","a","n","g","e">>, <<"t","s","r","a","n","g","e">>,
                     <<"t","s","t","z","r","a","n","g","e">>, <<"d","a","t","e","r","a","n","g","e">> } -> <<"S","t","r","i","n","g">>
    [] sqlType = <<"x","m","l">> -> <<"S","t","r","i","n","g">>
    [] sqlType = <<"v","o","i","d">> -> <<"N","i","l">>
    [] OTHER -> <<"S","t","r","i","n","g">>

mysqlType(sqlType) ==
  CASE sqlType = <<"b","i","g","i","n","t">> -> <<"I","n","t","6","4">>
    [] sqlType \in { <<"i","n","t">>, <<"i","n","t","e","g","e","r">>, <<"m","e","d","i","u","m","i","n","t">> } -> <<"I","n","t","3","2">>
    [] sqlType = <<"s","m","a","l","l","i","n","t">> -> <<"I","n","t","1","6">>
    [] sqlType = <<"t","i","n","y","i","n","t">> -> <<"I","n","t","8">>
    [] sqlType \in { <<"d","e","c","i","m","a","l">>, <<"n","u","m","e","r","i","c">> } -> <<"F","l","o","a","t","6","4">>
    [] sqlType = <<"f","l","o","a","t">> -> <<"F","l","o","a","t","3","2">>
    [] sqlType \in { <<"d","o","u","b","l","e">>, <<"d","o","u","b","l","e"," ","p","r","e","c","i","s","i","o","n">>, <<"r","e","a","l">> } -> <<"F","l","o","a","t","6","4">>
    [] sqlType \in { <<"b","i","t">>, <<"b","o","o","l">>, <<"b","o","o","l","e","a","n">> } -> <<"B","o","o","l">>
    [] sqlType \in { <<"c","h","a","r">>, <<"v","a","r","c","h","a","r">>, <<"t","e","x","t">>, <<"t","i","n","y","t","e","x","t">>, <<"m","e","d","i","u","m","t","e","x","t">>,
                     <<"l","o","n","g","t","e","x","t">> } -> <<"S","t","r","i","n","g">>
    [] sqlType \in { <<"d","a","t","e","t","i","m","e">>, <<"t","i","m","e","s","t","a","m","p">> } -> <<"T","i","m","e">>
    [] sqlType = <<"d","a","t","e">> -> <<"T","i","m","e">>
    [] sqlType = <<"t","i","m","e">> -> <<"T","i","m","e",":",":","S","p","a","n">>
    [] sqlType = <<"y","e","a","r">> -> <<"I","n","t","3","2">>
    [] sqlType = <<"j","s","o","n">> -> <<"J","S","O","N",":",":","A","n","y">>
    [] sqlType \in { <<"b","i","n","a","r","y">>, <<"v","a","r","b","i","n","a","r","y">>, <<"b","l","o","b">>, <<"t","i","n","y","b","l","o","b">>, <<"m","e","d","i","u","m","b","l","o","b">>,
                     <<"l","o","n","g","b","l","o","b">> } -> <<"B","y","t","e","s">>
    [] sqlType \in { <<"e","n","u","m">>, <<"s","e","t">> } -> <<"S","t","r","i","n","g">>
    [] OTHER -> <<"S","t","r","i","n","g">>

\* normalizeSQLiteType that keeps a parenthesized suffix.
lowerTrimmed(sqlType) == ToLower(TrimSpace(sqlType))

normalizeSQLiteType(sqlType) ==
  LET idx0 == Index(sqlType, <<"(">>)
      cut  == IF idx0 # 0 THEN SubSeq(sqlType, 1, idx0 - 1) ELSE sqlType
  IN ToLower(TrimSpace(cut))

isIntegerType(sqlType) ==
  \/ Contains(sqlType, <<"i","n","t">>)
  \/ sqlType \in { <<"i","n","t","e","g","e","r">>, <<"t","i","n","y","i","n","t">>, <<"s","m","a","l","l","i","n","t">>, <<"m","e","d","i","u","m","i","n","t">>, <<"b","i","g","i","n","t">>,
                   <<"i","n","t","2">>, <<"i","n","t","8">> }

isRealType(sqlType) == sqlType \in { <<"r","e","a","l">>, <<"d","o","u","b","l","e">>, <<"d","o","u","b","l","e"," ","p","r","e","c","i","s","i","o","n">>, <<"f","l","o","a","t">> }

isTextType(sqlType) ==
  \/ Contains(sqlType, <<"c","h","a","r">>)
  \/ Contains(sqlType, <<"c","l","o","b">>)
  \/ Contains(sqlType, <<"t","e","x","t">>)
  \/ sqlType \in { <<"v","a","r","c","h","a","r">>, <<"v","a","r","y","i","n","g"," ","c","h","a","r","a","c","t","e","r">>, <<"n","c","h","a","r">>, <<"n","a","t","i","v","e"," ","c","h","a","r","a","c","t","e","r">>,
                   <<"n","v","a","r","c","h","a","r">> }

isBlobType(sqlType) == sqlType = <<"b","l","o","b">> \/ sqlType = <<>>

isNumericType(sqlType) ==
  \/ sqlType = <<"n","u","m","e","r","i","c">>
  \/ sqlType = <<"d","e","c","i","m","a","l">>
  \/ Contains(sqlType, <<"d","e","c","i","m","a","l">>)

isDateTimeType(sqlType) == sqlType \in { <<"d","a","t","e">>, <<"d","a","t","e","t","i","m","e">>, <<"t","i","m","e","s","t","a","m","p">>, <<"t","i","m","e">> }

sqliteType(rawType) ==
  LET sqlType == normalizeSQLiteType(rawType) IN
  IF isIntegerType(sqlType) THEN <<"I","n","t","6","4">>
  ELSE IF isRealType(sqlType) THEN <<"F","l","o","a","t","6","4">>
  ELSE IF isTextType(sqlType) THEN <<"S","t","r","i","n","g">>
  ELSE IF isBlobType(sqlType) THEN <<"B","y","t","e","s">>
  ELSE IF isNumericType(sqlType) THEN <<"F","l","o","a","t","6","4">>
  ELSE IF sqlType = <<"b","o","o","l","e","a","n">> \/ sqlType = <<"b","o","o","l">> THEN <<"B","o","o","l">>
  ELSE IF isDateTimeType(sqlType) THEN <<"T","i","m","e">>
  ELSE <<"S","t","r","i","n","g">>

----------------------------------------------------------------------------
(* internal/crystal/generator.go: crystalType and baseType                 *)

\* baseType without the fallback for an unsupported dialect.
baseTypeKnownEngines(col) ==
  LET typeName == IF col.HasType THEN ToLower(col.TypeName) ELSE <<>> IN
  CASE req.Engine = <<"p","o","s","t","g","r","e","s","q","l">> -> postgresType(typeName)
    [] req.Engine = <<"m","y","s","q","l">> -> mysqlType(typeName)
    [] req.Engine = <<"s","q","l","i","t","e">> -> sqliteType(typeName)
    [] OTHER -> <<>>

baseType(col) ==
  LET typeName == IF col.HasType THEN ToLower(col.TypeName) ELSE <<>> IN
  CASE req.Engine = <<"p","o","s","t","g","r","e","s","q","l">> -> postgresType(typeName)
    [] req.Engine = <<"m","y","s","q","l">> -> mysqlType(typeName)
    [] req.Engine = <<"s","q","l","i","t","e">> -> sqliteType(typeName)
    [] OTHER -> postgresType(typeName)

\* crystalType that marks a nullable array optional as well.
crystalTypeOptionalArrays(col) ==
  LET typ  == baseType(col)
      typ2 == IF col.IsArray THEN <<"A","r","r","a","y","(">> \o typ \o <<")">> ELSE typ
  IN IF ~col.NotNull
     THEN IF options.EmitResultStructPointers THEN typ2 \o <<"*">> ELSE typ2 \o <<"?">>
     ELSE typ2

crystalType(col) ==
  LET typ  == baseType(col)
      typ2 == IF col.IsArray THEN <<"A","r","r","a","y","(">> \o typ \o <<")">> ELSE typ
  IN IF ~col.NotNull /\ ~col.IsArray
     THEN IF options.EmitResultStructPointers THEN typ2 \o <<"*">> ELSE typ2 \o <<"?">>
     ELSE typ2

----------------------------------------------------------------------------
(* Go maps and slices                                                      *)

EmptyMap == << >>

\* m[k] = v
Put(m, k, v) == (k :> v) @@ m

\* The orders in which a range over a Go map may visit the key set keys
\* (the iteration order of a Go map is unspecified and randomized).
mapOrders(keys) ==
  { p \in [ 1..Cardinality(keys) -> keys ] :
      \A i, j \in 1..Cardinality(keys) : i # j => p[i] # p[j] }

----------------------------------------------------------------------------
(* internal/crystal/generator.go: generateModels                           *)

\* The tables of the catalog in the order the first pass visits them, each
\* with the name of its schema.
RECURSIVE schemaTables(_, _)
schemaTables(schema, i) ==
  IF i > Len(schema.Tables) THEN <<>>
  ELSE << [ Schema |-> schema.Name, Table |-> schema.Tables[i] ] >> \o schemaTables(schema, i + 1)

RECURSIVE catalogTables(_)
catalogTables(schemas) ==
  IF schemas = <<>> THEN <<>>
  ELSE schemaTables(Head(schemas), 1) \o catalogTables(Tail(schemas))

\* generator.go 100-112: the schemas and tables the first pass skips.
isSystemTable(schemaName, table) ==
  \/ schemaName = <<"i","n","f","o","r","m","a","t","i","o","n","_","s","c","h","e","m","a">>
  \/ schemaName = <<"p","g","_","c","a","t","a","l","o","g">>
  \/ HasPrefix(table.Rel.Name, <<"p","g","_">>)
  \/ HasPrefix(table.Rel.Name, <<"s","q","l","_">>)
  \/ table.Rel.Schema = <<"i","n","f","o","r","m","a","t","i","o","n","_","s","c","h","e","m","a">>
  \/ table.Rel.Schema = <<"p","g","_","c","a","t","a","l","o","g">>

\* generator.go 123-131, 244-252, 260-268: the field of a column.
columnField(col) ==
  [ Name     |-> toSnakeCase(col.Name),
    DBName   |-> col.Name,
    JSONName |-> IF options.EmitJSONTags THEN col.Name ELSE <<>>,
    Type     |-> crystalType(col) ]

RECURSIVE columnFields(_)
columnFields(cols) ==
  IF cols = <<>> THEN <<>> ELSE << columnField(Head(cols)) >> \o columnFields(Tail(cols))

\* fieldSig: fmt.Sprintf("%s:%s;", field.Name, field.Type) for every field.
RECURSIVE fieldSignature(_)
fieldSignature(fields) ==
  IF fields = <<>> THEN <<>>
  ELSE Head(fields).Name \o <<":">> \o Head(fields).Type \o <<";">> \o fieldSignature(Tail(fields))

tableStructName(table) == toPascalCase(singularize(table.Rel.Name))

\* generator.go 114-136: the struct of a table.
tableStruct(table) ==
  [ Name      |-> tableStructName(table),
    TableName |-> table.Rel.Name,
    Fields    |-> columnFields(table.Columns) ]

\* generator.go 164-180: the key under which a result column is grouped;
\* "" for a standalone column.
columnGroupKey(col) ==
  IF col.HasEmbed THEN col.EmbedTable
  ELSE IF col.TableName # <<>>
       THEN IF col.TableAlias # <<>> THEN col.TableAlias ELSE col.TableName
       ELSE <<>>

isStandalone(col) == ~col.HasEmbed /\ col.TableName = <<>>

tableColumnKeys(query) ==
  { columnGroupKey(query.Columns[i]) :
      i \in { j \in DOMAIN query.Columns : ~isStandalone(query.Columns[j]) } }

\* tableColumns[key][0]: the first column grouped under key.
firstColumnOf(query, key) ==
  query.Columns[CHOOSE i \in DOMAIN query.Columns :
                  /\ ~isStandalone(query.Columns[i])
                  /\ columnGroupKey(query.Columns[i]) = key
                  /\ \A j \in 1..(i - 1) :
                       isStandalone(query.Columns[j]) \/ columnGroupKey(query.Columns[j]) # key]

RECURSIVE standaloneColumns(_)
standaloneColumns(cols) ==
  IF cols = <<>> THEN <<>>
  ELSE (IF isStandalone(Head(cols)) THEN << Head(cols) >> ELSE <<>>)
         \o standaloneColumns(Tail(cols))

hasEmbeds(query) == \E i \in DOMAIN query.Columns : query.Columns[i].HasEmbed

\* generator.go 196-213: the struct name of an embedded table.
embedStructName(tableName) ==
  LET nameIn(tables) ==
        LET nameOf(found) ==
              IF found # {}
              THEN toPascalCase(singularize(
                     tables[CHOOSE i \in found : \A j \in found : i <= j].Table.Rel.Name))
              ELSE toPascalCase(singularize(tableName))
        IN nameOf({ i \in DOMAIN tables : tables[i].Table.Rel.Name = tableName })
  IN nameIn(IF req.HasCatalog THEN catalogTables(req.Schemas) ELSE <<>>)

\* generator.go 215-230: the type of the field of an embedded table.
embedFieldType(query, tableName) ==
  LET typeOf(text, structName) ==
        LET nullable == Contains(text, <<"L","E","F","T"," ","J","O","I","N">>) \/ Contains(text, <<"R","I","G","H","T"," ","J","O","I","N">>)
        IN IF /\ nullable
              /\ Contains(text, <<"L","E","F","T"," ","J","O","I","N">>)
              /\ ~Contains(text, <<"F","R","O","M"," ">> \o ToUpper(tableName))
           THEN structName \o <<"?">>
           ELSE structName
  IN typeOf(ToUpper(query.Text), embedStructName(tableName))

\* generator.go 232-236
embedField(query, tableName) ==
  LET field(name) ==
        [ Name     |-> name,
          DBName   |-> name,
          JSONName |-> <<>>,
          Type     |-> embedFieldType(query, tableName) ]
  IN field(toSnakeCase(singularize(tableName)))

\* generator.go 192-240: the embedded fields, the map's keys visited in order.
RECURSIVE embedFields(_, _)
embedFields(query, order) ==
  IF order = <<>> THEN <<>>
  ELSE (IF firstColumnOf(query, Head(order)).HasEmbed
        THEN << embedField(query, Head(order)) >> ELSE <<>>)
         \o embedFields(query, Tail(order))

\* generator.go 186-273: the fields of a query's result struct.
queryFields(query, order) ==
  IF hasEmbeds(query)
  THEN embedFields(query, order) \o columnFields(standaloneColumns(query.Columns))
  ELSE columnFields(query.Columns)

\* generator.go 284-287, 355-358
queryStructName(query) ==
  IF query.Cmd = <<":","o","n","e">> \/ query.Cmd = <<":","m","a","n","y">>
  THEN toPascalCase(query.Name) \o <<"R","o","w">>
  ELSE toPascalCase(query.Name)

\* generator.go 148-156: the queries the second pass skips.
skipsQuery(query) ==
  \/ Len(query.Columns) = 0
  \/ query.Cmd \in { <<":","e","x","e","c">>, <<":","e","x","e","c","r","e","s","u","l","t">>, <<":","e","x","e","c","r","o","w","s">>, <<":","c","o","p","y","f","r","o","m">> }

\* generator.go 303-310: the structs sorted by name.
RECURSIVE sortedStructs(_)
sortedStructs(m) ==
  IF DOMAIN m = {} THEN <<>>
  ELSE LET from(least) ==
             << m[least] >> \o sortedStructs([ n \in (DOMAIN m) \ { least } |-> m[n] ])
       IN from(CHOOSE n \in DOMAIN m : \A o \in DOMAIN m : o = n \/ StrLess(n, o))

----------------------------------------------------------------------------
(* internal/crystal/generator.go: generateQueries                          *)

\* getStructNameForQuery without the lookup in the registry: every query
\* gets the name made from its own name.
queryNamedStruct(query) ==
  IF Len(query.Columns) <= 1 THEN <<>> ELSE queryStructName(query)

\* generator.go 332-360
getStructNameForQuery(query) ==
  IF Len(query.Columns) <= 1 THEN <<>>
  ELSE LET lookup(signature) ==
             IF signature \in DOMAIN signatureToStruct
             THEN signatureToStruct[signature]
             ELSE queryStructName(query)
       IN lookup(fieldSignature(columnFields(query.Columns)))

\* generator.go 379-404: the crystalParam of a parameter.
queryParam(param) ==
  [ Name     |-> IF param.Column.Name # <<>>
                 THEN toSnakeCase(param.Column.Name)
                 ELSE <<"a","r","g">> \o Itoa(param.Number),
    Type     |-> IF param.Column.IsSqlcSlice
                 THEN <<"A","r","r","a","y","(">> \o baseType(param.Column) \o <<")">>
                 ELSE crystalType(param.Column),
    Position |-> param.Number ]

RECURSIVE queryParams(_)
queryParams(params) ==
  IF params = <<>> THEN <<>> ELSE << queryParam(Head(params)) >> \o queryParams(Tail(params))

\* generator.go 398-401: the sqlcSliceParam of every sqlc.slice() parameter.
RECURSIVE sliceParams(_)
sliceParams(params) ==
  IF params = <<>> THEN <<>>
  ELSE (IF Head(params).Column.IsSqlcSlice
        THEN << [ Name        |-> queryParam(Head(params)).Name,
                  Placeholder |-> <<"$">> \o Itoa(Head(params).Number) ] >>
        ELSE <<>>) \o sliceParams(Tail(params))

\* generator.go 415-427: the less function of the parameter sort.
requiredFirstLess(a, b) ==
  LET iIsOptional == HasSuffix(a.Type, <<"?">>)
      jIsOptional == HasSuffix(b.Type, <<"?">>)
  IN IF iIsOptional # jIsOptional THEN ~iIsOptional ELSE a.Position < b.Position

\* sort.SliceStable(cq.Params, less): a stable insertion sort.
RECURSIVE insertRequiredFirst(_, _)
insertRequiredFirst(sorted, x) ==
  IF sorted = <<>> THEN << x >>
  ELSE IF requiredFirstLess(x, sorted[Len(sorted)])
       THEN insertRequiredFirst(SubSeq(sorted, 1, Len(sorted) - 1), x) \o << sorted[Len(sorted)] >>
       ELSE sorted \o << x >>

RECURSIVE sortRequiredFirst(_)
sortRequiredFirst(params) ==
  IF params = <<>> THEN <<>>
  ELSE insertRequiredFirst(sortRequiredFirst(SubSeq(params, 1, Len(params) - 1)),
                           params[Len(params)])

\* returnType that knows the row kinds and :exec only.
returnTypeRowKinds(query) ==
  CASE query.Cmd = <<":","o","n","e">> ->
         (IF Len(query.Columns) = 1 THEN crystalType(query.Columns[1])
          ELSE getStructNameForQuery(query)) \o <<"?">>
    [] query.Cmd = <<":","m","a","n","y">> ->
         <<"A","r","r","a","y","(">> \o (IF Len(query.Columns) = 1 THEN crystalType(query.Columns[1])
                       ELSE getStructNameForQuery(query)) \o <<")">>
    [] OTHER -> <<"N","i","l">>

\* generator.go 429-455: the return type of a query method.
returnType(query) ==
  CASE query.Cmd = <<":","o","n","e">> ->
         (IF Len(query.Columns) = 1 THEN crystalType(query.Columns[1])
          ELSE getStructNameForQuery(query)) \o <<"?">>
    [] query.Cmd = <<":","m","a","n","y">> ->
         <<"A","r","r","a","y","(">> \o (IF Len(query.Columns) = 1 THEN crystalType(query.Columns[1])
                       ELSE getStructNameForQuery(query)) \o <<")">>
    [] query.Cmd = <<":","e","x","e","c">> -> <<"N","i","l">>
    [] query.Cmd = <<":","e","x","e","c","r","e","s","u","l","t">> -> <<"D","B",":",":","E","x","e","c","R","e","s","u","l","t">>
    [] query.Cmd = <<":","e","x","e","c","r","o","w","s">> -> <<"I","n","t","6","4">>
    [] query.Cmd = <<":","e","x","e","c","l","a","s","t","i","d">> -> <<"I","n","t","6","4">>
    [] query.Cmd = <<":","c","o","p","y","f","r","o","m">> -> <<"I","n","t","6","4">>
    [] OTHER -> <<>>

isRowCmd(query) == query.Cmd = <<":","o","n","e">> \/ query.Cmd = <<":","m","a","n","y">>

\* generator.go 457-466
resultStruct(query) ==
  IF Len(query.Columns) > 1 /\ isRowCmd(query) THEN getStructNameForQuery(query) ELSE <<>>

singleColumnType(query) ==
  IF Len(query.Columns) = 1 /\ isRowCmd(query) THEN crystalType(query.Columns[1]) ELSE <<>>

\* generator.go 366-468: the crystalQuery of a query.
crystalQuery(query) ==
  [ Name             |-> toSnakeCase(query.Name),
    SQL              |-> query.Text,
    SourceName       |-> query.Name,
    Cmd              |-> query.Cmd,
    ConstantName     |-> toConstantCase(query.Name),
    Params           |-> sortRequiredFirst(queryParams(query.Params)),
    ReturnType       |-> returnType(query),
    ResultStruct     |-> resultStruct(query),
    SingleColumnType |-> singleColumnType(query),
    UsesSQLCSlice    |-> \E i \in DOMAIN query.Params : query.Params[i].Column.IsSqlcSlice,
    SliceParams      |-> sliceParams(query.Params) ]

RECURSIVE crystalQueries(_)
crystalQueries(qs) ==
  IF qs = <<>> THEN <<>> ELSE << crystalQuery(Head(qs)) >> \o crystalQueries(Tail(qs))

----------------------------------------------------------------------------
(* The template helpers and the queries template                           *)

RECURSIVE insertByPosition(_, _)
insertByPosition(sorted, x) ==
  IF sorted = <<>> THEN << x >>
  ELSE IF x.Position < sorted[Len(sorted)].Position
       THEN insertByPosition(SubSeq(sorted, 1, Len(sorted) - 1), x) \o << sorted[Len(sorted)] >>
       ELSE sorted \o << x >>

RECURSIVE sortByPosition(_)
sortByPosition(params) ==
  IF params = <<>> THEN <<>>
  ELSE insertByPosition(sortByPosition(SubSeq(params, 1, Len(params) - 1)),
                        params[Len(params)])

\* paramNames: the names in bind-position order (the list that the template
\* joins with ", ").
paramNames(params) ==
  LET paramsCopy == sortByPosition(params)
  IN [ i \in DOMAIN paramsCopy |-> paramsCopy[i].Name ]

\* paramList: one declaration per parameter, in the order of params; Default
\* is whether the declaration ends in " = nil".
paramList(params) ==
  [ i \in DOMAIN params |->
      [ Name    |-> params[i].Name,
        Type    |-> params[i].Type,
        Default |-> HasSuffix(params[i].Type, <<"?">>) ] ]

needsSliceExpansion(query, engine) ==
  query.UsesSQLCSlice /\ (engine = <<"m","y","s","q","l">> \/ engine = <<"s","q","l","i","t","e">>)

\* expandSliceParams that emits no emptiness check and no gsub.
noSliceChecks(params, sps) == <<>>

\* expandSliceParams: the names for which an emptiness check and a gsub of
\* the marker /*SLICE:<name>*/? are emitted, in the order of emission.
RECURSIVE expandSliceParams(_, _)
expandSliceParams(params, sps) ==
  IF sps = <<>> THEN <<>>
  ELSE (IF \E i \in DOMAIN params : params[i].Name = Head(sps).Name
        THEN << Head(sps).Name >> ELSE <<>>) \o expandSliceParams(params, Tail(sps))

\* queriesTemplateStr 227-233: the values appended to query_params, in the
\* order of .Params; Concat is whether the parameter is flattened.
flattenList(params) ==
  [ i \in DOMAIN params |->
      [ Name     |-> params[i].Name,
        Position |-> params[i].Position,
        Concat   |-> Contains(params[i].Type, <<"A","r","r","a","y","(">>) ] ]

\* queriesTemplateStr 235-261: the statement the slice branch executes.
sliceBranchExec(cmd) ==
  CASE cmd = <<":","o","n","e">> -> "query_one"
    [] cmd = <<":","m","a","n","y">> -> "query_all"
    [] cmd = <<":","e","x","e","c">> -> "exec"
    [] cmd = <<":","e","x","e","c","r","o","w","s">> -> "exec"
    [] OTHER -> "none"

\* queriesTemplateStr 262-326: the statement the plain branch executes.
plainBranchExec(cmd) ==
  CASE cmd = <<":","o","n","e">> -> "query_one"
    [] cmd = <<":","m","a","n","y">> -> "query_all"
    [] cmd = <<":","e","x","e","c">> -> "exec"
    [] cmd = <<":","e","x","e","c","r","e","s","u","l","t">> -> "exec"
    [] cmd = <<":","e","x","e","c","r","o","w","s">> -> "exec"
    [] cmd = <<":","e","x","e","c","l","a","s","t","i","d">> -> "exec"
    [] OTHER -> "none"

\* queriesTemplateStr 220-327: the method the template renders for a query.
queryMethod(cq, engine) ==
  [ Name       |-> cq.Name,
    Signature  |-> paramList(cq.Params),
    ReturnType |-> cq.ReturnType,
    Expands    |-> needsSliceExpansion(cq, engine),
    Checks     |-> IF needsSliceExpansion(cq, engine)
                   THEN expandSliceParams(cq.Params, cq.SliceParams) ELSE <<>>,
    Flatten    |-> IF needsSliceExpansion(cq, engine) THEN flattenList(cq.Params) ELSE <<>>,
    Args       |-> IF needsSliceExpansion(cq, engine) THEN <<>> ELSE paramNames(cq.Params),
    Exec       |-> IF needsSliceExpansion(cq, engine)
                   THEN sliceBranchExec(cq.Cmd) ELSE plainBranchExec(cq.Cmd) ]

queryMethods(cqs, engine) == [ i \in DOMAIN cqs |-> queryMethod(cqs[i], engine) ]

----------------------------------------------------------------------------
(* internal/crystal/generator.go: generateRepositories                     *)

\* generator.go 797-820: the crystalParam of the i-th parameter.
repositoryParam(param, i) ==
  [ Name     |-> IF param.Column.Name # <<>>
                 THEN toSnakeCase(param.Column.Name)
                 ELSE <<"a","r","g">> \o Itoa(i),
    Type     |-> IF param.Column.IsSqlcSlice
                 THEN <<"A","r","r","a","y","(">> \o baseType(param.Column) \o <<")">>
                 ELSE crystalType(param.Column),
    Position |-> i ]

\* generator.go 785-887
buildCrystalQuery(query) ==
  [ Name             |-> toSnakeCase(query.Name),
    SQL              |-> query.Text,
    SourceName       |-> <<>>,
    Cmd              |-> query.Cmd,
    ConstantName     |-> toConstantCase(query.Name),
    Params           |-> sortRequiredFirst(
                           [ i \in DOMAIN query.Params |-> repositoryParam(query.Params[i], i) ]),
    ReturnType       |-> returnType(query),
    ResultStruct     |-> resultStruct(query),
    SingleColumnType |-> singleColumnType(query),
    UsesSQLCSlice    |-> \E i \in DOMAIN query.Params : query.Params[i].Column.IsSqlcSlice,
    SliceParams      |-> sliceParams(query.Params) ]

\* The first field of the text after the first occurrence of keyword;
\* "" when there is none.
firstFieldAfter(sql, keyword) ==
  LET firstOf(parts) ==
        LET firstField(flds) == IF Len(flds) > 0 THEN flds[1] ELSE <<>>
        IN firstField(IF Len(parts) > 1 THEN Fields(TrimSpace(parts[2])) ELSE <<>>)
  IN firstOf(Split(sql, keyword))

\* extractTableName that knows the selection source only.
extractSelectionSource(q) == firstFieldAfter(ToLower(q.Text), <<"f","r","o","m">>)

\* generator.go 685-744
extractTableName(q) ==
  LET tableIn(sql) ==
        LET orSelected(selected) ==
              IF Contains(sql, <<"f","r","o","m">>) /\ selected # <<>>
              THEN IF Contains(selected, <<" ","a","s"," ">>) THEN Split(selected, <<" ","a","s"," ">>)[1]
                   ELSE selected
              ELSE <<>>
            orDeleted(deleted) ==
              IF Contains(sql, <<"d","e","l","e","t","e"," ","f","r","o","m">>) /\ deleted # <<>> THEN deleted
              ELSE orSelected(firstFieldAfter(sql, <<"f","r","o","m">>))
            orUpdated(updated) ==
              IF HasPrefix(TrimSpace(sql), <<"u","p","d","a","t","e"," ">>) /\ updated # <<>> THEN updated
              ELSE orDeleted(firstFieldAfter(sql, <<"d","e","l","e","t","e"," ","f","r","o","m">>))
            orInserted(inserted) ==
              IF Contains(sql, <<"i","n","s","e","r","t"," ","i","n","t","o">>) /\ inserted # <<>> THEN Trim(inserted, "(")
              ELSE orUpdated(firstFieldAfter(sql, <<"u","p","d","a","t","e">>))
        IN orInserted(firstFieldAfter(sql, <<"i","n","s","e","r","t"," ","i","n","t","o">>))
  IN tableIn(ToLower(q.Text))

\* generator.go 747-782
simplifyMethodName(methodName, tableName) ==
  LET simplify(snakeMethod, snakeTable, singularTable) ==
        LET after(prefix) == SubSeq(snakeMethod, Len(prefix) + 1, Len(snakeMethod)) IN
        IF HasPrefix(snakeMethod, <<"g","e","t","_">> \o singularTable)
        THEN <<"f","i","n","d">> \o after(<<"g","e","t","_">> \o singularTable)
        ELSE IF HasPrefix(snakeMethod, <<"l","i","s","t","_">> \o snakeTable \o <<"_","b","y","_">>)
        THEN <<"b","y","_">> \o after(<<"l","i","s","t","_">> \o snakeTable \o <<"_","b","y","_">>)
        ELSE IF snakeMethod = <<"l","i","s","t","_">> \o snakeTable THEN <<"a","l","l">>
        ELSE IF HasPrefix(snakeMethod, <<"c","r","e","a","t","e","_">> \o singularTable) THEN <<"c","r","e","a","t","e">>
        ELSE IF HasPrefix(snakeMethod, <<"u","p","d","a","t","e","_">> \o singularTable) THEN <<"u","p","d","a","t","e">>
        ELSE IF HasPrefix(snakeMethod, <<"d","e","l","e","t","e","_">> \o singularTable) THEN <<"d","e","l","e","t","e">>
        ELSE IF HasPrefix(snakeMethod, snakeTable \o <<"_">>) THEN after(snakeTable \o <<"_">>)
        ELSE IF HasPrefix(snakeMethod, singularTable \o <<"_">>) THEN after(singularTable \o <<"_">>)
        ELSE methodName
      forTable(snakeTable) ==
        simplify(toSnakeCase(methodName), snakeTable, TrimSuffix(snakeTable, <<"s">>))
  IN forTable(toSnakeCase(tableName))

\* generator.go 611-619: tableQueries, the queries of every table name that
\* extractTableName finds, in the order of the request.
RECURSIVE tableQueries(_)
tableQueries(qs) ==
  IF qs = <<>> THEN EmptyMap
  ELSE LET add(m, query, tableName) ==
             IF tableName = <<>> THEN m
             ELSE Put(m, tableName,
                      (IF tableName \in DOMAIN m THEN m[tableName] ELSE <<>>)
                        \o << buildCrystalQuery(query) >>)
       IN add(tableQueries(SubSeq(qs, 1, Len(qs) - 1)), qs[Len(qs)],
              extractTableName(qs[Len(qs)]))

\* repositoryTemplate 475-482: the method the template renders for a query.
repositoryMethod(cq, tableName) ==
  [ MethodName |-> simplifyMethodName(cq.Name, tableName),
    Signature  |-> paramList(cq.Params),
    ReturnType |-> cq.ReturnType,
    Callee     |-> cq.Name,
    Args       |-> paramNames(cq.Params) ]

\* generator.go 634-682
generateRepositoryForTable(tableName, cqs) ==
  [ Name     |-> <<"r","e","p","o","s","i","t","o","r","i","e","s","/">> \o toSnakeCase(tableName) \o <<"_","r","e","p","o","s","i","t","o","r","y",".","c","r">>,
    Contents |-> [ TableName |-> toPascalCase(tableName),
                   Methods   |-> [ i \in DOMAIN cqs |-> repositoryMethod(cqs[i], tableName) ] ] ]

\* generator.go 622-628: one file per table, the map's keys visited in order.
repositoryFiles(m, order) ==
  AsSeq([ i \in DOMAIN order |-> generateRepositoryForTable(order[i], m[order[i]]) ])

----------------------------------------------------------------------------
(* The requests the model generates code for                               *)

\* Bounds of the model.
MaxTables  == 2
MaxQueries == 2

Table(name, cols) == [ Rel |-> [ Name |-> name, Schema |-> <<>> ], Columns |-> cols ]

\* A result column that sqlc.embed(table) produced.
EmbedColumn(table) ==
  [ Name |-> table, HasType |-> FALSE, TypeName |-> <<>>, NotNull |-> FALSE,
    IsArray |-> FALSE, IsSqlcSlice |-> FALSE, HasEmbed |-> TRUE,
    EmbedTable |-> table, TableName |-> <<>>, TableAlias |-> <<>> ]

Param(number, col) == [ Number |-> number, Column |-> col ]

Query(name, cmd, text, cols, params) ==
  [ Name |-> name, Cmd |-> cmd, Text |-> text, Columns |-> cols, Params |-> params ]

colId    == Column(<<"i","d">>, <<"i","n","t","4">>, TRUE)
colName  == Column(<<"n","a","m","e">>, <<"t","e","x","t">>, TRUE)
colTitle == Column(<<"t","i","t","l","e">>, <<"t","e","x","t">>, FALSE)

\* authors and books have the same column shape; tags has a single column.
TablePool ==
  << Table(<<"a","u","t","h","o","r","s">>, << colId, colName >>),
     Table(<<"b","o","o","k","s">>, << colId, colName >>),
     Table(<<"t","a","g","s">>, << colId >>) >>

sqlGetAuthor    == <<"S","E","L","E","C","T"," ","i","d",","," ","n","a","m","e"," ","F","R","O","M"," ","a","u","t","h","o","r","s"," ","W","H","E","R","E"," ","i","d"," ","="," ","$","1">>
sqlCreateAuthor == <<"I","N","S","E","R","T"," ","I","N","T","O"," ","a","u","t","h","o","r","s"," ","(","n","a","m","e",")"," ","V","A","L","U","E","S"," ","(","$","1",")"," ","R","E","T","U","R","N","I","N","G"," ","i","d",","," ","n","a","m","e">>
sqlListTitles   == <<"S","E","L","E","C","T"," ","i","d",","," ","t","i","t","l","e"," ","F","R","O","M"," ","b","o","o","k","s">>
sqlGetTagId     == <<"S","E","L","E","C","T"," ","i","d"," ","F","R","O","M"," ","t","a","g","s"," ","W","H","E","R","E"," ","i","d"," ","="," ","$","1">>
sqlLeftJoin     == <<"S","E","L","E","C","T"," ","*"," ","F","R","O","M"," ","a","u","t","h","o","r","s"," ","L","E","F","T"," ","J","O","I","N"," ","b","o","o","k","s"," ","U","S","I","N","G"," ","(","i","d",")">>
sqlRightJoin    == <<"S","E","L","E","C","T"," ","*"," ","F","R","O","M"," ","a","u","t","h","o","r","s"," ","R","I","G","H","T"," ","J","O","I","N"," ","b","o","o","k","s"," ","U","S","I","N","G"," ","(","i","d",")">>
sqlInnerLeft    == <<"S","E","L","E","C","T"," ","*"," ","F","R","O","M"," ","a","u","t","h","o","r","s"," ","I","N","N","E","R"," ","J","O","I","N"," ","b","o","o","k","s"," ","U","S","I","N","G"," ","(","i","d",")"," ","L","E","F","T"," ","J","O","I","N"," ","t","a","g","s"," ","U","S","I","N","G"," ","(","i","d",")">>

QueryPool ==
  << Query(<<"G","e","t","A","u","t","h","o","r">>, <<":","o","n","e">>, sqlGetAuthor, << colId, colName >>, << Param(1, colId) >>),
     Query(<<"C","r","e","a","t","e","A","u","t","h","o","r">>, <<":","o","n","e">>, sqlCreateAuthor, << colId, colName >>, << Param(1, colName) >>),
     Query(<<"L","i","s","t","T","i","t","l","e","s">>, <<":","m","a","n","y">>, sqlListTitles, << colId, colTitle >>, <<>>),
     Query(<<"G","e","t","T","a","g","I","d">>, <<":","o","n","e">>, sqlGetTagId, << colId >>, << Param(1, colId) >>),
     Query(<<"L","i","s","t","A","u","t","h","o","r","B","o","o","k","s">>, <<":","m","a","n","y">>, sqlLeftJoin,
           << EmbedColumn(<<"a","u","t","h","o","r","s">>), EmbedColumn(<<"b","o","o","k","s">>) >>, <<>>),
     Query(<<"L","i","s","t","B","o","o","k","A","u","t","h","o","r","s">>, <<":","m","a","n","y">>, sqlLeftJoin,
           << EmbedColumn(<<"a","u","t","h","o","r","s">>), EmbedColumn(<<"b","o","o","k","s">>) >>, <<>>),
     Query(<<"L","i","s","t","R","i","g","h","t","J","o","i","n">>, <<":","m","a","n","y">>, sqlRightJoin,
           << EmbedColumn(<<"a","u","t","h","o","r","s">>), EmbedColumn(<<"b","o","o","k","s">>) >>, <<>>),
     Query(<<"L","i","s","t","T","a","g","g","e","d">>, <<":","m","a","n","y">>, sqlInnerLeft,
           << EmbedColumn(<<"a","u","t","h","o","r","s">>), EmbedColumn(<<"b","o","o","k","s">>), EmbedColumn(<<"t","a","g","s">>) >>, <<>>) >>

\* The subsequences of pool of at most n elements, in the order of the pool.
SubSeqsOf(pool, n) ==
  { [ i \in 1..Len(ix) |-> pool[ix[i]] ] :
      ix \in UNION { { s \in [ 1..k -> DOMAIN pool ] : \A i \in 1..(k - 1) : s[i] < s[i + 1] } : k \in 0..n } }

\* A request without a catalog, with a catalog without schemas, or with the
\* tables in one schema named public.
Catalogs ==
  { [ HasCatalog |-> FALSE, Schemas |-> <<>> ], [ HasCatalog |-> TRUE, Schemas |-> <<>> ] }
    \cup { [ HasCatalog |-> TRUE, Schemas |-> << [ Name |-> <<"p","u","b","l","i","c">>, Tables |-> ts ] >> ] :
             ts \in SubSeqsOf(TablePool, MaxTables) }

Requests ==
  { [ Engine |-> <<"p","o","s","t","g","r","e","s","q","l">>, HasCatalog |-> c.HasCatalog, Schemas |-> c.Schemas,
      Queries |-> qs ] : c \in Catalogs, qs \in SubSeqsOf(QueryPool, MaxQueries) }

GeneratorOptions(connMgr, repos, pointers) ==
  [ EmitJSONTags |-> FALSE, EmitDBTags |-> TRUE, EmitResultStructPointers |-> pointers,
    GenerateConnectionManager |-> connMgr, GenerateRepositories |-> repos,
    EmitBooleanQuestionGetters |-> FALSE ]

OptionSets == { GeneratorOptions(c, r, FALSE) : c \in BOOLEAN, r \in BOOLEAN }

----------------------------------------------------------------------------
(* Generator.Generate                                                      *)

File(name, structList, methods) ==
  [ Name |-> name, Structs |-> structList, Methods |-> methods ]

NoCall == [ pc |-> "none" ]

allTables == catalogTables(req.Schemas)
numTables == Len(allTables)
numQueries == Len(req.Queries)

\* generator.go 47: models are generated only for a catalog with schemas.
hasSchemas == req.HasCatalog /\ Len(req.Schemas) > 0

\* NewGenerator
NewGenerator ==
  /\ signatureToStruct = EmptyMap
  /\ structs = EmptyMap
  /\ fieldSignatures = EmptyMap
  /\ pc = "models"
  /\ idx = 1
  /\ files = <<>>
  /\ queries = <<>>

Init ==
  /\ req \in Requests
  /\ options \in OptionSets
  /\ NewGenerator
  /\ prevFiles = <<>>
  /\ call = NoCall

\* generator.go 47-55 when the request has no catalog or no schema.
SkipModels ==
  /\ pc = "models"
  /\ ~hasSchemas
  /\ pc' = "queries"
  /\ UNCHANGED << req, options, signatureToStruct, structs, fieldSignatures, idx,
                  files, queries, prevFiles, call >>

\* generator.go 138-142, 288-296: the struct is recorded under its name and
\* under its signature.
registerStruct(cs, signature) ==
  /\ structs' = Put(structs, cs.Name, cs)
  /\ fieldSignatures' = Put(fieldSignatures, signature, cs.Name)
  /\ signatureToStruct' = Put(signatureToStruct, signature, cs.Name)

\* generator.go 99-144: one iteration of the first pass.
GenerateModelsTable ==
  /\ pc = "models"
  /\ hasSchemas
  /\ idx <= numTables
  /\ LET visit(schemaName, table, cs) ==
           IF ~isSystemTable(schemaName, table) /\ Len(cs.Fields) > 0
           THEN registerStruct(cs, fieldSignature(cs.Fields))
           ELSE UNCHANGED << structs, fieldSignatures, signatureToStruct >>
         visitEntry(entry) == visit(entry.Schema, entry.Table, tableStruct(entry.Table))
     IN visitEntry(allTables[idx])
  /\ idx' = idx + 1
  /\ UNCHANGED << req, options, pc, files, queries, prevFiles, call >>

\* generator.go 275-296: the struct of a query, unless a struct with the
\* same signature exists.
addQueryStruct(structName, fields, signature) ==
  IF signature \in DOMAIN fieldSignatures
  THEN UNCHANGED << structs, fieldSignatures, signatureToStruct >>
  ELSE registerStruct([ Name |-> structName, TableName |-> <<>>, Fields |-> fields ],
                      signature)

\* generator.go 147-297: one iteration of the second pass.
GenerateModelsQuery ==
  /\ pc = "models"
  /\ hasSchemas
  /\ idx > numTables
  /\ idx <= numTables + numQueries
  /\ LET visit(query) ==
           IF skipsQuery(query)
           THEN UNCHANGED << structs, fieldSignatures, signatureToStruct >>
           ELSE \E order \in mapOrders(tableColumnKeys(query)) :
                  LET add(fields) ==
                        addQueryStruct(queryStructName(query), fields, fieldSignature(fields))
                  IN add(queryFields(query, order))
     IN visit(req.Queries[idx - numTables])
  /\ idx' = idx + 1
  /\ UNCHANGED << req, options, pc, files, queries, prevFiles, call >>

\* generator.go 299-329: the models file, unless there is no struct.
GenerateModelsEmit ==
  /\ pc = "models"
  /\ hasSchemas
  /\ idx = numTables + numQueries + 1
  /\ files' = IF DOMAIN structs = {} THEN files
              ELSE Append(files, File(<<"m","o","d","e","l","s",".","c","r">>, sortedStructs(structs), <<>>))
  /\ pc' = "queries"
  /\ UNCHANGED << req, options, signatureToStruct, structs, fieldSignatures, idx,
                  queries, prevFiles, call >>

\* A parameter of the request whose Column pointer is nil.
NilColumn == [ Nil |-> TRUE ]

isNilColumn(col) == "Nil" \in DOMAIN col

\* generator.go 378-386, 488-511: crystalType, baseType and the lookup of
\* param.Column.Name read through the pointer without a nil check.
dereferencesNil(qs) ==
  \E i \in DOMAIN qs : \E j \in DOMAIN qs[i].Params : isNilColumn(qs[i].Params[j].Column)

\* generator.go 57-66 and generateQueries; a nil pointer dereference ends
\* the process before any file of the stage is added.
GenerateQueries ==
  /\ pc = "queries"
  /\ IF numQueries > 0 /\ dereferencesNil(req.Queries)
     THEN /\ pc' = "panicked"
          /\ UNCHANGED << queries, files >>
     ELSE /\ IF numQueries > 0
             THEN /\ queries' = crystalQueries(req.Queries)
                  /\ files' = Append(files, File(<<"q","u","e","r","i","e","s",".","c","r">>, <<>>, queryMethods(queries', req.Engine)))
             ELSE UNCHANGED << queries, files >>
          /\ pc' = "connmgr"
  /\ UNCHANGED << req, options, signatureToStruct, structs, fieldSignatures, idx,
                  prevFiles, call >>

\* Generate that adds the connection manager file whatever the option says.
AlwaysConnectionManager ==
  /\ pc = "connmgr"
  /\ files' = Append(files, File(<<"d","a","t","a","b","a","s","e",".","c","r">>, <<>>, <<>>))
  /\ pc' = "repos"
  /\ UNCHANGED << req, options, signatureToStruct, structs, fieldSignatures, idx,
                  queries, prevFiles, call >>

\* generator.go 68-77 and generateConnectionManager
GenerateConnectionManager ==
  /\ pc = "connmgr"
  /\ files' = IF options.GenerateConnectionManager
              THEN Append(files, File(<<"d","a","t","a","b","a","s","e",".","c","r">>, <<>>, <<>>))
              ELSE files
  /\ pc' = "repos"
  /\ UNCHANGED << req, options, signatureToStruct, structs, fieldSignatures, idx,
                  queries, prevFiles, call >>

\* generator.go 79-88 and generateRepositories
GenerateRepositories ==
  /\ pc = "repos"
  /\ IF options.GenerateRepositories
     THEN LET render(m) == \E order \in mapOrders(DOMAIN m) :
                                files' = files \o repositoryFiles(m, order)
          IN render(tableQueries(req.Queries))
     ELSE UNCHANGED files
  /\ pc' = "done"
  /\ UNCHANGED << req, options, signatureToStruct, structs, fieldSignatures, idx,
                  queries, prevFiles, call >>

Next ==
  \/ SkipModels
  \/ GenerateModelsTable
  \/ GenerateModelsQuery
  \/ GenerateModelsEmit
  \/ GenerateQueries
  \/ GenerateConnectionManager
  \/ GenerateRepositories

Spec == Init /\ [][Next]_vars

----------------------------------------------------------------------------
(* A second run of the generator on the same request                       *)

\* The number of runs of the generator on one request.
MaxRuns == 2

\* Generate is called again with the request and the options of the run
\* that has ended; the files of that run are kept for comparison.
Rerun ==
  /\ pc = "done"
  /\ Len(prevFiles) < MaxRuns - 1
  /\ prevFiles' = Append(prevFiles, files)
  /\ signatureToStruct' = EmptyMap
  /\ structs' = EmptyMap
  /\ fieldSignatures' = EmptyMap
  /\ pc' = "models"
  /\ idx' = 1
  /\ files' = <<>>
  /\ queries' = <<>>
  /\ UNCHANGED << req, options, call >>

\* The runs that are compared generate every kind of file.
InitTwice ==
  /\ req \in Requests
  /\ options = GeneratorOptions(TRUE, TRUE, FALSE)
  /\ NewGenerator
  /\ prevFiles = <<>>
  /\ call = NoCall

NextTwice == Next \/ Rerun

SpecTwice == InitTwice /\ [][NextTwice]_vars

\* C7: two runs of the generator on the same request with the same options
\* give the same list of files, with the same names in the same order and
\* the same contents, the order of the fields of the structs of embedded
\* tables and the order of the facade files included.
C7_Deterministic ==
  (pc = "done" /\ prevFiles # <<>>) => files = prevFiles[Len(prevFiles)]

----------------------------------------------------------------------------
(* Queries with parameters, and calls of the generated query methods       *)

\* Bounds of the model.
MaxParams == 2
MaxElems  == 2

ParamColumn(name, typeName, notNull, isArray, isSlice) ==
  [ Name |-> name, HasType |-> TRUE, TypeName |-> typeName, NotNull |-> notNull,
    IsArray |-> isArray, IsSqlcSlice |-> isSlice, HasEmbed |-> FALSE,
    EmbedTable |-> <<>>, TableName |-> <<>>, TableAlias |-> <<>> ]

\* A required scalar, a nullable scalar, two sqlc.slice() parameters (one
\* with a camel-case name), a required array and a nullable array.
ParamPool ==
  { ParamColumn(<<"i","d">>, <<"i","n","t">>, TRUE, FALSE, FALSE),
    ParamColumn(<<"b","i","o">>, <<"t","e","x","t">>, FALSE, FALSE, FALSE),
    ParamColumn(<<"i","d","s">>, <<"i","n","t">>, TRUE, FALSE, TRUE),
    ParamColumn(<<"t","a","g","I","d","s">>, <<"i","n","t">>, TRUE, FALSE, TRUE),
    ParamColumn(<<"n","u","m","s">>, <<"i","n","t">>, TRUE, TRUE, FALSE),
    ParamColumn(<<"t","a","g","s">>, <<"t","e","x","t">>, FALSE, TRUE, FALSE) }

\* The sequences of at most n distinct elements of S.
DistinctSeqs(S, n) ==
  UNION { { s \in [ 1..k -> S ] : \A i, j \in 1..k : i # j => s[i] # s[j] } : k \in 0..n }

expandsSlices(engine) == engine = <<"m","y","s","q","l">> \/ engine = <<"s","q","l","i","t","e">>

\* The condition that sqlc writes into the text of the query for the
\* parameter with number n.
paramCondition(engine, col, n) ==
  IF col.IsSqlcSlice
  THEN IF expandsSlices(engine)
       THEN <<" ","A","N","D"," ","c"," ","I","N"," ","(","/","*","S","L","I","C","E",":">> \o col.Name \o <<"*","/","?",")">>
       ELSE <<" ","A","N","D"," ","c"," ","I","N"," ","(","$">> \o Itoa(n) \o <<")">>
  ELSE IF expandsSlices(engine) THEN <<" ","A","N","D"," ","c"," ","="," ","?">> ELSE <<" ","A","N","D"," ","c"," ","="," ","$">> \o Itoa(n)

RECURSIVE paramConditions(_, _, _)
paramConditions(engine, cols, n) ==
  IF n > Len(cols) THEN <<>>
  ELSE paramCondition(engine, cols[n], n) \o paramConditions(engine, cols, n + 1)

ParamQuery(engine, cmd, cols) ==
  Query(<<"F","i","n","d">>, cmd, <<"S","E","L","E","C","T"," ","i","d"," ","F","R","O","M"," ","t"," ","W","H","E","R","E"," ","1">> \o paramConditions(engine, cols, 1),
        IF cmd = <<":","e","x","e","c">> THEN <<>> ELSE << colId >>,
        [ n \in DOMAIN cols |-> Param(n, cols[n]) ])

ParamRequests ==
  { [ Engine |-> engine, HasCatalog |-> FALSE, Schemas |-> <<>>,
      Queries |-> << ParamQuery(engine, cmd, cols) >> ] :
      engine \in { <<"p","o","s","t","g","r","e","s","q","l">>, <<"m","y","s","q","l">>, <<"s","q","l","i","t","e">> },
      cmd \in { <<":","m","a","n","y">>, <<":","e","x","e","c">> },
      cols \in DistinctSeqs(ParamPool, MaxParams) }

ParamOptionSets == { GeneratorOptions(FALSE, FALSE, p) : p \in BOOLEAN }

InitParams ==
  /\ req \in ParamRequests
  /\ options \in ParamOptionSets
  /\ NewGenerator
  /\ prevFiles = <<>>
  /\ call = NoCall

\* The methods of the class Queries of the response.
generatedMethods ==
  IF \E i \in DOMAIN files : files[i].Name = <<"q","u","e","r","i","e","s",".","c","r">>
  THEN files[CHOOSE i \in DOMAIN files : files[i].Name = <<"q","u","e","r","i","e","s",".","c","r">>].Methods
  ELSE <<>>

\* The parameters of a method whose values are arrays.
arrayParamNames(method) ==
  { method.Signature[k].Name :
      k \in { j \in DOMAIN method.Signature : Contains(method.Signature[j].Type, <<"A","r","r","a","y","(">>) } }

\* Crystal rejects a method with two parameters of the same name.
compiles(method) ==
  \A i, j \in DOMAIN method.Signature :
    i # j => method.Signature[i].Name # method.Signature[j].Name

\* String#gsub(old, new) with a string pattern.
RECURSIVE joinWith(_, _)
joinWith(parts, sep) ==
  IF Len(parts) = 1 THEN parts[1]
  ELSE parts[1] \o sep \o joinWith(Tail(parts), sep)

gsub(s, old, new) == joinWith(Split(s, old), new)

\* n.times.map { "?" }.join(", ")
RECURSIVE placeholdersOf(_)
placeholdersOf(n) ==
  IF n = 0 THEN <<>>
  ELSE IF n = 1 THEN <<"?">>
  ELSE <<"?",","," ">> \o placeholdersOf(n - 1)

\* The values of a parameter: element j of the array name is << name, j >>,
\* a value that is not flattened is << name, 0 >>.
RECURSIVE elementsOf(_, _, _)
elementsOf(name, j, n) ==
  IF j > n THEN <<>> ELSE << << name, j >> >> \o elementsOf(name, j + 1, n)

\* queriesTemplateStr 226-233: query_params after the range over .Params.
RECURSIVE flattened(_, _)
flattened(list, sizes) ==
  IF list = <<>> THEN <<>>
  ELSE (IF Head(list).Concat
        THEN elementsOf(Head(list).Name, 1, sizes[Head(list).Name])
        ELSE << << Head(list).Name, 0 >> >>) \o flattened(Tail(list), sizes)

\* queriesTemplateStr 262-326: the arguments of the plain branch.
plainArgs(names) == [ i \in DOMAIN names |-> << names[i], 0 >> ]

\* A call of a generated method, with arrays of every size up to MaxElems.
CallMethod ==
  /\ pc = "done"
  /\ call.pc = "none"
  /\ \E m \in DOMAIN generatedMethods :
       /\ compiles(generatedMethods[m])
       /\ \E sizes \in [ arrayParamNames(generatedMethods[m]) -> 0..MaxElems ] :
            call' = [ pc       |-> "body",
                      method   |-> m,
                      sizes    |-> sizes,
                      sql      |-> queries[m].SQL,
                      k        |-> 1,
                      checked  |-> {},
                      bound    |-> <<>>,
                      executed |-> FALSE ]
  /\ UNCHANGED << req, options, signatureToStruct, structs, fieldSignatures, pc, idx,
                  files, queries, prevFiles >>

\* expandSliceParams 393-399: the emptiness check and the gsub of one
\* slice parameter.
CheckSlice ==
  /\ call.pc = "body"
  /\ generatedMethods[call.method].Expands
  /\ call.k <= Len(generatedMethods[call.method].Checks)
  /\ LET check(name) ==
           IF call.sizes[name] = 0
           THEN call' = [ call EXCEPT !.pc = "raised", !.checked = @ \cup { name } ]
           ELSE call' = [ call EXCEPT
                            !.sql = gsub(@, <<"/","*","S","L","I","C","E",":">> \o name \o <<"*","/","?">>,
                                         placeholdersOf(call.sizes[name])),
                            !.k = @ + 1,
                            !.checked = @ \cup { name } ]
     IN check(generatedMethods[call.method].Checks[call.k])
  /\ UNCHANGED << req, options, signatureToStruct, structs, fieldSignatures, pc, idx,
                  files, queries, prevFiles >>

\* queriesTemplateStr 226-261 and 262-326: the values are collected and
\* the statement is executed.
Execute ==
  /\ call.pc = "body"
  /\ LET run(method) ==
           /\ method.Expands => call.k > Len(method.Checks)
           /\ call' = [ call EXCEPT
                          !.pc = "returned",
                          !.bound = IF method.Expands
                                    THEN flattened(method.Flatten, call.sizes)
                                    ELSE plainArgs(method.Args),
                          !.executed = method.Exec # "none" ]
     IN run(generatedMethods[call.method])
  /\ UNCHANGED << req, options, signatureToStruct, structs, fieldSignatures, pc, idx,
                  files, queries, prevFiles >>

NextParams ==
  \/ SkipModels
  \/ GenerateQueries
  \/ GenerateConnectionManager
  \/ GenerateRepositories
  \/ CallMethod
  \/ CheckSlice
  \/ Execute

SpecParams == InitParams /\ [][NextParams]_vars

----------------------------------------------------------------------------
(* Properties of the struct registry and of the return types               *)

\* generateQueries has returned: the return types of every query are known.
queriesDone == pc \in { "connmgr", "repos", "done" }

\* A row-returning query with more than one result column.
rowQuery(query) == isRowCmd(query) /\ Len(query.Columns) > 1

\* The ordered (name, type) sequence of the result columns of a query.
resultShape(query) ==
  [ i \in DOMAIN query.Columns |->
      << query.Columns[i].Name, crystalType(query.Columns[i]) >> ]

\* The signature of the struct that a struct name resolves to; the name
\* itself when the models file defines no struct of that name.
resolvedSignature(name) ==
  IF name \in DOMAIN structs THEN fieldSignature(structs[name].Fields) ELSE name

\* C1: any two row-returning multi-column queries of a request with the same
\* ordered (name, type) result columns have the same struct name in their
\* return types, and two such queries with different result columns resolve
\* to structs with different signatures; with or without a catalog, with or
\* without embedded tables.
C1_SameShapeSameStruct ==
  queriesDone =>
    \A i, j \in DOMAIN req.Queries :
      (rowQuery(req.Queries[i]) /\ rowQuery(req.Queries[j])) =>
        IF resultShape(req.Queries[i]) = resultShape(req.Queries[j])
        THEN queries[i].ResultStruct = queries[j].ResultStruct
        ELSE resolvedSignature(queries[i].ResultStruct)
               # resolvedSignature(queries[j].ResultStruct)

\* The tables of the catalog that get a struct and whose columns have the
\* (name, type) sequence of the result columns of query, as indexes into
\* allTables.
tablesOfShape(query) ==
  { t \in DOMAIN allTables :
      /\ ~isSystemTable(allTables[t].Schema, allTables[t].Table)
      /\ Len(allTables[t].Table.Columns) > 0
      /\ resultShape(allTables[t].Table) = resultShape(query) }

lastOf(S) == CHOOSE t \in S : \A u \in S : u <= t

\* The return type that generateQueries gives a row-returning query whose
\* rows have the type named name.
wrapped(query, name) ==
  IF query.Cmd = <<":","o","n","e">> THEN name \o <<"?">> ELSE <<"A","r","r","a","y","(">> \o name \o <<")">>

embedStructOf(query) == structs[queryStructName(query)]

hasEmbedStruct(query) ==
  /\ hasSchemas
  /\ ~skipsQuery(query)
  /\ hasEmbeds(query)
  /\ queryStructName(query) \in DOMAIN structs

\* The fields of the struct of query that stand for the embedded table.
embedFieldsOf(query, tableName) ==
  { k \in DOMAIN embedStructOf(query).Fields :
      embedStructOf(query).Fields[k].Name = toSnakeCase(singularize(tableName)) }

isOptionalType(typ) == HasSuffix(typ, <<"?">>)

hasOuterJoin(query) ==
  \/ Contains(ToUpper(query.Text), <<"L","E","F","T"," ","J","O","I","N">>)
  \/ Contains(ToUpper(query.Text), <<"R","I","G","H","T"," ","J","O","I","N">>)

isPrimaryFrom(query, tableName) ==
  Contains(ToUpper(query.Text), <<"F","R","O","M"," ">> \o ToUpper(tableName))

\* C8: the field of an embedded table is optional if and only if the text of
\* the query contains LEFT JOIN or RIGHT JOIN and the table is not the
\* table after FROM.
C8_EmbedOptionalIffOuterJoined ==
  \A i \in DOMAIN req.Queries :
    hasEmbedStruct(req.Queries[i]) =>
      \A tableName \in tableColumnKeys(req.Queries[i]) :
        \A k \in embedFieldsOf(req.Queries[i], tableName) :
          isOptionalType(embedStructOf(req.Queries[i]).Fields[k].Type)
            <=> ( /\ hasOuterJoin(req.Queries[i])
                  /\ ~isPrimaryFrom(req.Queries[i], tableName) )

isInnerJoined(query, tableName) ==
  Contains(ToUpper(query.Text), <<"I","N","N","E","R"," ","J","O","I","N"," ">> \o ToUpper(tableName))

\* C9: the field of an embedded table that the query attaches by INNER JOIN
\* is never optional, whatever other joins the query has.
C9_InnerJoinedEmbedRequired ==
  \A i \in DOMAIN req.Queries :
    hasEmbedStruct(req.Queries[i]) =>
      \A tableName \in tableColumnKeys(req.Queries[i]) :
        isInnerJoined(req.Queries[i], tableName) =>
          \A k \in embedFieldsOf(req.Queries[i], tableName) :
            ~isOptionalType(embedStructOf(req.Queries[i]).Fields[k].Type)

----------------------------------------------------------------------------
(* Properties of the response                                              *)

\* 1 for the record-types file, 2 for the query-methods file, 3 for the
\* connection-manager file, 4 for a facade file.
fileRank(name) ==
  IF name = <<"m","o","d","e","l","s",".","c","r">> THEN 1
  ELSE IF name = <<"q","u","e","r","i","e","s",".","c","r">> THEN 2
  ELSE IF name = <<"d","a","t","a","b","a","s","e",".","c","r">> THEN 3
  ELSE 4

isFacadeFile(name) == HasPrefix(name, <<"r","e","p","o","s","i","t","o","r","i","e","s","/">>)

----------------------------------------------------------------------------
(* Properties of the generated query methods                               *)

\* The bind position of the parameter of query method m that has the name.
positionOf(m, name) ==
  queries[m].Params[CHOOSE k \in DOMAIN queries[m].Params :
                      queries[m].Params[k].Name = name].Position

\* The names of the values that a method passes to the database, in the
\* order in which it passes them.
bindNames(method) ==
  IF method.Expands
  THEN [ k \in DOMAIN method.Flatten |-> method.Flatten[k].Name ]
  ELSE method.Args

\* C2: the parameter names of the signature of a method are the names of
\* the values it binds, and the values are bound in ascending bind
\* position, however the signature is ordered.
C2_BindListInPositionOrder ==
  queriesDone =>
    \A m \in DOMAIN generatedMethods :
      compiles(generatedMethods[m]) =>
        /\ { generatedMethods[m].Signature[k].Name : k \in DOMAIN generatedMethods[m].Signature }
             = { bindNames(generatedMethods[m])[k] : k \in DOMAIN bindNames(generatedMethods[m]) }
        /\ \A a, b \in DOMAIN bindNames(generatedMethods[m]) :
             a < b => positionOf(m, bindNames(generatedMethods[m])[a])
                        < positionOf(m, bindNames(generatedMethods[m])[b])

\* The column of the parameter of the request that the k-th parameter of
\* the signature of query method m stands for.
columnOf(m, k) ==
  req.Queries[m].Params[CHOOSE n \in DOMAIN req.Queries[m].Params :
                          req.Queries[m].Params[n].Number = queries[m].Params[k].Position].Column

\* C3: in the signature of a method the parameters of not-nullable columns
\* come before the parameters of nullable columns, each group is in
\* ascending bind position, and a parameter has the default nil if and
\* only if its column is nullable; for every option and every kind of
\* parameter.
C3_RequiredBeforeDefaulted ==
  queriesDone =>
    \A m \in DOMAIN generatedMethods :
      /\ \A a, b \in DOMAIN generatedMethods[m].Signature :
           a < b =>
             /\ ~(~columnOf(m, a).NotNull /\ columnOf(m, b).NotNull)
             /\ (columnOf(m, a).NotNull = columnOf(m, b).NotNull
                   => queries[m].Params[a].Position < queries[m].Params[b].Position)
      /\ \A k \in DOMAIN generatedMethods[m].Signature :
           generatedMethods[m].Signature[k].Default <=> ~columnOf(m, k).NotNull

\* The values that the placeholders of the text of a query stand for, in
\* the order of the placeholders: the elements of the collection for a
\* sqlc.slice() parameter, one value for any other parameter.
RECURSIVE expectedValues(_, _)
expectedValues(params, sizes) ==
  IF params = <<>> THEN <<>>
  ELSE (IF Head(params).Column.IsSqlcSlice
        THEN elementsOf(queryParam(Head(params)).Name, 1, sizes[queryParam(Head(params)).Name])
        ELSE << << queryParam(Head(params)).Name, 0 >> >>)
         \o expectedValues(Tail(params), sizes)

placeholderCount(sql) == Cardinality(Occurrences(sql, <<"?">>))

\* C4: on mysql and sqlite a method of a query with a sqlc.slice()
\* parameter executes a text in which every marker has been replaced by as
\* many placeholders as the collection has elements, and binds one value
\* per placeholder in the order of the placeholders.
C4_ExpansionMatchesBoundValues ==
  ( /\ call.pc = "returned"
    /\ call.executed
    /\ expandsSlices(req.Engine)
    /\ \E n \in DOMAIN req.Queries[call.method].Params :
         req.Queries[call.method].Params[n].Column.IsSqlcSlice ) =>
    /\ ~Contains(call.sql, <<"/","*","S","L","I","C","E",":">>)
    /\ placeholderCount(call.sql)
         = Len(expectedValues(req.Queries[call.method].Params, call.sizes))
    /\ call.bound = expectedValues(req.Queries[call.method].Params, call.sizes)

\* The names of the sqlc.slice() parameters of a query of the request.
sliceNames(query) ==
  { queryParam(query.Params[n]).Name :
      n \in { k \in DOMAIN query.Params : query.Params[k].Column.IsSqlcSlice } }

\* C5: on mysql and sqlite a call with an empty collection for a
\* sqlc.slice() parameter raises and executes nothing, and a statement is
\* executed only after every sqlc.slice() parameter has been checked and
\* found not empty.
C5_EmptyCollectionRaises ==
  (call.pc # "none" /\ expandsSlices(req.Engine)) =>
    /\ call.executed =>
         \A name \in sliceNames(req.Queries[call.method]) :
           name \in call.checked /\ call.sizes[name] > 0
    /\ ( /\ call.pc \in { "returned", "raised" }
         /\ \E name \in sliceNames(req.Queries[call.method]) : call.sizes[name] = 0 ) =>
         (call.pc = "raised" /\ ~call.executed)

\* C5 witness: a call with two sqlc.slice() parameters, the first not
\* empty and the second empty, has raised after the first check.
C5_Witness ==
  /\ call.pc = "raised"
  /\ ~call.executed
  /\ Cardinality(sliceNames(req.Queries[call.method])) = 2
  /\ Cardinality(call.checked) = 2
  /\ \E name \in call.checked : call.sizes[name] > 0

----------------------------------------------------------------------------
(* The connection manager file and the signatures of the record types      *)

fileIndex(name) == { i \in DOMAIN files : files[i].Name = name }

\* C11: database.cr is in every response, after models.cr and queries.cr;
\* without facades, a request with tables and queries gives exactly 3
\* files, a request with only queries or only tables exactly 2.
C11_DatabaseAlwaysGenerated ==
  pc = "done" =>
    /\ \E i \in fileIndex(<<"d","a","t","a","b","a","s","e",".","c","r">>) :
         \A j \in DOMAIN files : fileRank(files[j].Name) < 3 => j < i
    /\ ~options.GenerateRepositories =>
         /\ (hasSchemas /\ numTables > 0 /\ numQueries > 0) => Len(files) = 3
         /\ (~hasSchemas /\ numQueries > 0) => Len(files) = 2
         /\ (hasSchemas /\ numTables > 0 /\ numQueries = 0) => Len(files) = 2

\* C20: no two structs of the record-types file have the same sequence of
\* (field name, field type) pairs.
C20_NoTwoStructsShareSignature ==
  \A f \in fileIndex(<<"m","o","d","e","l","s",".","c","r">>) :
    \A i, j \in DOMAIN files[f].Structs :
      i # j => fieldSignature(files[f].Structs[i].Fields)
                 # fieldSignature(files[f].Structs[j].Fields)

----------------------------------------------------------------------------
(* Type resolution on its own: crystalType applied to one column           *)

TypeColumn(hasType, typeName, notNull, isArray) ==
  [ Name |-> <<"c">>, HasType |-> hasType, TypeName |-> typeName, NotNull |-> notNull,
    IsArray |-> isArray, IsSqlcSlice |-> FALSE, HasEmbed |-> FALSE,
    EmbedTable |-> <<>>, TableName |-> <<>>, TableAlias |-> <<>> ]

\* Raw type names: numeric and decimal in several letter cases and with a
\* precision suffix, names every dialect knows, names only some know, an
\* unknown name and the empty name.
TypeNames ==
  { <<"n","u","m","e","r","i","c">>, <<"N","U","M","E","R","I","C">>, <<"D","e","c","i","m","a","l">>, <<"d","e","c","i","m","a","l">>, <<"n","u","m","e","r","i","c","(","1","0",",","2",")">>, <<"D","E","C","I","M","A","L","(","8",","," ","3",")">>,
    <<"i","n","t","4">>, <<"b","i","g","i","n","t">>, <<"t","e","x","t">>, <<"V","A","R","C","H","A","R","(","2","5","5",")">>, <<"b","o","o","l">>, <<"t","i","m","e","s","t","a","m","p">>,
    <<"d","o","u","b","l","e"," ","p","r","e","c","i","s","i","o","n">>, <<"j","s","o","n">>, <<"b","l","o","b">>, <<"g","e","o","m","e","t","r","y">>, <<>> }

\* The dialects of baseType, an unsupported one and an empty selector.
Engines == { <<"p","o","s","t","g","r","e","s","q","l">>, <<"m","y","s","q","l">>, <<"s","q","l","i","t","e">>, <<"m","s","s","q","l">>, <<>> }

TypeColumns ==
  { TypeColumn(TRUE, t, n, a) : t \in TypeNames, n \in BOOLEAN, a \in BOOLEAN }
    \cup { TypeColumn(FALSE, <<>>, n, a) : n \in BOOLEAN, a \in BOOLEAN }

InitTypes ==
  /\ req \in { [ Engine |-> e, HasCatalog |-> FALSE, Schemas |-> <<>>, Queries |-> <<>> ] :
                 e \in Engines }
  /\ options \in { GeneratorOptions(FALSE, FALSE, p) : p \in BOOLEAN }
  /\ signatureToStruct = EmptyMap
  /\ structs = EmptyMap
  /\ fieldSignatures = EmptyMap
  /\ pc = "types"
  /\ idx = 1
  /\ files = <<>>
  /\ queries = <<>>
  /\ prevFiles = <<>>
  /\ call \in { [ pc |-> "column", column |-> c ] : c \in TypeColumns }

\* generator.go 489-527: the type of the column and the base type it is
\* built from.
CrystalType ==
  /\ pc = "types"
  /\ call.pc = "column"
  /\ call' = [ pc |-> "type", column |-> call.column,
               base |-> baseType(call.column), type |-> crystalType(call.column) ]
  /\ UNCHANGED << req, options, signatureToStruct, structs, fieldSignatures, pc, idx,
                  files, queries, prevFiles >>

NextTypes == CrystalType

SpecTypes == InitTypes /\ [][NextTypes]_vars

supportedEngine == req.Engine \in { <<"p","o","s","t","g","r","e","s","q","l">>, <<"m","y","s","q","l">>, <<"s","q","l","i","t","e">> }

optionalMarker == IF options.EmitResultStructPointers THEN <<"*">> ELSE <<"?">>

\* C13: a nullable column that is no array has the base type followed by
\* one optional marker, a non-nullable one the bare base type, and an array
\* column Array(base) without a marker whatever its nullable flag.
C13_OptionalMarker ==
  call.pc = "type" =>
    /\ ~HasSuffix(call.base, <<"?">>) /\ ~HasSuffix(call.base, <<"*">>)
    /\ call.type = IF call.column.IsArray THEN <<"A","r","r","a","y","(">> \o call.base \o <<")">>
                   ELSE IF ~call.column.NotNull THEN call.base \o optionalMarker
                   ELSE call.base

\* C13 witness: a nullable array column was resolved with the pointer
\* option set.
C13_Witness ==
  /\ call.pc = "type"
  /\ call.column.IsArray /\ ~call.column.NotNull
  /\ options.EmitResultStructPointers
  /\ call.type = <<"A","r","r","a","y","(","I","n","t","3","2",")">>

\* The raw type name without a parenthesized suffix.
stemOf(typeName) ==
  LET open == { i \in DOMAIN typeName : typeName[i] = "(" }
  IN IF open # {} /\ typeName[Len(typeName)] = ")"
     THEN SubSeq(typeName, 1, (CHOOSE i \in open : \A j \in open : i <= j) - 1)
     ELSE typeName

isNumericName(typeName) == ToLower(typeName) \in { <<"n","u","m","e","r","i","c">>, <<"d","e","c","i","m","a","l">> }

----------------------------------------------------------------------------
(* Requests with system schemas, all command kinds and all statement kinds *)

MaxSchemas == 2
MaxKindQueries == 2

SchemaTable(name, schema, cols) == [ Rel |-> [ Name |-> name, Schema |-> schema ], Columns |-> cols ]

\* The two system schemas, a schema public with two system-prefixed tables
\* and a table without columns, and a second user schema with a table
\* named as one of public.
SchemaPool ==
  << [ Name |-> <<"i","n","f","o","r","m","a","t","i","o","n","_","s","c","h","e","m","a">>,
       Tables |-> << SchemaTable(<<"c","o","l","u","m","n","s">>, <<"i","n","f","o","r","m","a","t","i","o","n","_","s","c","h","e","m","a">>, << colName >>) >> ],
     [ Name |-> <<"p","g","_","c","a","t","a","l","o","g">>,
       Tables |-> << SchemaTable(<<"s","e","t","t","i","n","g","s">>, <<"p","g","_","c","a","t","a","l","o","g">>, << colId >>) >> ],
     [ Name |-> <<"p","u","b","l","i","c">>,
       Tables |-> << SchemaTable(<<"a","u","t","h","o","r","s">>, <<>>, << colId, colName >>),
                     SchemaTable(<<"p","g","_","s","t","a","t","s">>, <<>>, << colId >>),
                     SchemaTable(<<"s","q","l","_","f","e","a","t","u","r","e","s">>, <<>>, << colName >>),
                     SchemaTable(<<"t","a","g","s">>, <<>>, << colId >>),
                     SchemaTable(<<"d","r","a","f","t","s">>, <<>>, <<>>) >> ],
     [ Name |-> <<"a","u","d","i","t">>,
       Tables |-> << SchemaTable(<<"a","u","t","h","o","r","s">>, <<"a","u","d","i","t">>, << colId >>) >> ] >>

sqlListTitle    == <<"S","E","L","E","C","T"," ","t","i","t","l","e"," ","F","R","O","M"," ","b","o","o","k","s">>
sqlListNamed    == <<"S","E","L","E","C","T"," ","i","d",","," ","t","i","t","l","e"," ","F","R","O","M"," ","b","o","o","k","s"," ","A","S"," ","b">>
sqlDeleteBook   == <<"D","E","L","E","T","E"," ","F","R","O","M"," ","b","o","o","k","s"," ","W","H","E","R","E"," ","i","d"," ","="," ","$","1">>
sqlPruneBooks   == <<"W","I","T","H"," ","t"," ","A","S"," ","(","S","E","L","E","C","T"," ","i","d"," ","F","R","O","M"," ","t","a","g","s",")"," ","D","E","L","E","T","E"," ","F","R","O","M"," ","b","o","o","k","s"," ","W","H","E","R","E"," ","i","d"," ","I","N"," ","(","S","E","L","E","C","T"," ","i","d"," ","F","R","O","M"," ","t",")">>
sqlUpdateAuthor == <<"U","P","D","A","T","E"," ","a","u","t","h","o","r","s"," ","S","E","T"," ","n","a","m","e"," ","="," ","$","1"," ","F","R","O","M"," ","b","o","o","k","s"," ","W","H","E","R","E"," ","b","o","o","k","s",".","i","d"," ","="," ","a","u","t","h","o","r","s",".","i","d">>
sqlArchiveTags  == <<"I","N","S","E","R","T"," ","I","N","T","O"," ","a","r","c","h","i","v","e"," ","S","E","L","E","C","T"," ","i","d"," ","F","R","O","M"," ","t","a","g","s">>
sqlMoveBooks    == <<"W","I","T","H"," ","m","o","v","e","d"," ","A","S"," ","(","D","E","L","E","T","E"," ","F","R","O","M"," ","b","o","o","k","s"," ","R","E","T","U","R","N","I","N","G"," ","i","d",")"," ","I","N","S","E","R","T"," ","I","N","T","O"," ","a","r","c","h","i","v","e"," ","S","E","L","E","C","T"," ","i","d"," ","F","R","O","M"," ","m","o","v","e","d">>
sqlPing         == <<"S","E","L","E","C","T"," ","1">>
sqlRefresh      == <<"C","A","L","L"," ","r","e","f","r","e","s","h","(",")">>

KindQueryPool ==
  << Query(<<"G","e","t","A","u","t","h","o","r">>, <<":","o","n","e">>, sqlGetAuthor, << colId, colName >>, << Param(1, colId) >>),
     Query(<<"G","e","t","T","a","g","I","d">>, <<":","o","n","e">>, sqlGetTagId, << colId >>, << Param(1, colId) >>),
     Query(<<"L","i","s","t","T","i","t","l","e">>, <<":","m","a","n","y">>, sqlListTitle, << colTitle >>, <<>>),
     Query(<<"L","i","s","t","N","a","m","e","d">>, <<":","m","a","n","y">>, sqlListNamed, << colId, colTitle >>, <<>>),
     Query(<<"D","e","l","e","t","e","B","o","o","k">>, <<":","e","x","e","c">>, sqlDeleteBook, <<>>, << Param(1, colId) >>),
     Query(<<"P","r","u","n","e","B","o","o","k","s">>, <<":","e","x","e","c","r","o","w","s">>, sqlPruneBooks, <<>>, <<>>),
     Query(<<"U","p","d","a","t","e","A","u","t","h","o","r">>, <<":","e","x","e","c","r","o","w","s">>, sqlUpdateAuthor, << colId >>, << Param(1, colName) >>),
     Query(<<"A","r","c","h","i","v","e","T","a","g","s">>, <<":","e","x","e","c","r","e","s","u","l","t">>, sqlArchiveTags, << colId >>, <<>>),
     Query(<<"M","o","v","e","B","o","o","k","s">>, <<":","e","x","e","c">>, sqlMoveBooks, << colId, colName >>, <<>>),
     Query(<<"C","r","e","a","t","e","A","u","t","h","o","r">>, <<":","e","x","e","c","l","a","s","t","i","d">>, sqlCreateAuthor, << colId, colName >>, << Param(1, colName) >>),
     Query(<<"P","i","n","g">>, <<":","o","n","e">>, sqlPing, << colId >>, <<>>),
     Query(<<"R","e","f","r","e","s","h">>, <<":","e","x","e","c">>, sqlRefresh, <<>>, <<>>) >>

KindCatalogs ==
  { [ HasCatalog |-> FALSE, Schemas |-> <<>> ] }
    \cup { [ HasCatalog |-> TRUE, Schemas |-> ss ] : ss \in SubSeqsOf(SchemaPool, MaxSchemas) }

KindRequests ==
  { [ Engine |-> <<"p","o","s","t","g","r","e","s","q","l">>, HasCatalog |-> c.HasCatalog, Schemas |-> c.Schemas,
      Queries |-> qs ] : c \in KindCatalogs, qs \in SubSeqsOf(KindQueryPool, MaxKindQueries) }

InitKinds ==
  /\ req \in KindRequests
  /\ options \in { GeneratorOptions(FALSE, r, FALSE) : r \in BOOLEAN }
  /\ NewGenerator
  /\ prevFiles = <<>>
  /\ call = NoCall

SpecKinds == InitKinds /\ [][Next]_vars

----------------------------------------------------------------------------
(* Return types, table structs and facade owners                           *)

\* X of the return type: the scalar type of the only result column, or the
\* struct name resolved for several result columns.
returnedValue(i) ==
  IF Len(req.Queries[i].Columns) = 1 THEN crystalType(req.Queries[i].Columns[1])
  ELSE queries[i].ResultStruct

\* The name the registry holds for the columns of the query, if any.
registryResolves(i, name) ==
  LET holds(signature) ==
        signature \in DOMAIN signatureToStruct => name = signatureToStruct[signature]
  IN holds(fieldSignature(columnFields(req.Queries[i].Columns)))

\* C15: the command kind fixes the outer shape of the return type: :one X?,
\* :many Array(X), :exec Nil, :execresult DB::ExecResult, :execrows Int64,
\* :execlastid Int64, X being the scalar type of a single result column or
\* the resolved struct name of several; the non-row kinds do not depend on
\* the result columns.
C15_ReturnTypeByKind ==
  queriesDone =>
    \A i \in DOMAIN queries :
      LET query == req.Queries[i]
          typ   == queries[i].ReturnType
      IN /\ (query.Cmd = <<":","o","n","e">> /\ Len(query.Columns) >= 1) =>
              /\ returnedValue(i) # <<>>
              /\ typ = returnedValue(i) \o <<"?">>
         /\ (query.Cmd = <<":","m","a","n","y">> /\ Len(query.Columns) >= 1) =>
              /\ returnedValue(i) # <<>>
              /\ typ = <<"A","r","r","a","y","(">> \o returnedValue(i) \o <<")">>
         /\ (isRowCmd(query) /\ Len(query.Columns) > 1) =>
              registryResolves(i, returnedValue(i))
         /\ query.Cmd = <<":","e","x","e","c">> => typ = <<"N","i","l">>
         /\ query.Cmd = <<":","e","x","e","c","r","e","s","u","l","t">> => typ = <<"D","B",":",":","E","x","e","c","R","e","s","u","l","t">>
         /\ query.Cmd = <<":","e","x","e","c","r","o","w","s">> => typ = <<"I","n","t","6","4">>
         /\ query.Cmd = <<":","e","x","e","c","l","a","s","t","i","d">> => typ = <<"I","n","t","6","4">>

\* C15 witness: a :many query of two columns next to an :execlastid query
\* that has result columns.
C15_Witness ==
  /\ queriesDone
  /\ \E i, j \in DOMAIN queries :
       /\ req.Queries[i].Cmd = <<":","m","a","n","y">> /\ queries[i].ReturnType = <<"A","r","r","a","y","(","L","i","s","t","N","a","m","e","d","R","o","w",")">>
       /\ req.Queries[j].Cmd = <<":","e","x","e","c","l","a","s","t","i","d">> /\ Len(req.Queries[j].Columns) = 2
       /\ queries[j].ReturnType = <<"I","n","t","6","4">>

\* The structs of the record-types file, once it is emitted.
emittedStructs ==
  IF fileIndex(<<"m","o","d","e","l","s",".","c","r">>) = {} THEN <<>>
  ELSE files[CHOOSE f \in fileIndex(<<"m","o","d","e","l","s",".","c","r">>) : TRUE].Structs

\* A table of a system schema or with a system prefix in its name.
inSystemSchema(entry) ==
  \/ entry.Schema \in { <<"i","n","f","o","r","m","a","t","i","o","n","_","s","c","h","e","m","a">>, <<"p","g","_","c","a","t","a","l","o","g">> }
  \/ entry.Table.Rel.Schema \in { <<"i","n","f","o","r","m","a","t","i","o","n","_","s","c","h","e","m","a">>, <<"p","g","_","c","a","t","a","l","o","g">> }

hasSystemPrefix(entry) ==
  \/ SubSeq(entry.Table.Rel.Name, 1, 3) = <<"p","g","_">>
  \/ SubSeq(entry.Table.Rel.Name, 1, 4) = <<"s","q","l","_">>

structsOfTable(entry) ==
  { k \in DOMAIN emittedStructs : emittedStructs[k].TableName = entry.Table.Rel.Name }

\* The struct has one field per column of the table, in column order.
fieldPerColumn(struct, table) ==
  /\ Len(struct.Fields) = Len(table.Columns)
  /\ \A c \in DOMAIN table.Columns : struct.Fields[c].DBName = table.Columns[c].Name

\* C16: no struct is generated for a table of a system schema or with a
\* system prefix; every other table with at least one column gets exactly
\* one struct, named from its singularized, capitalized name, with one field
\* per column in column order.
C16_TableStructs ==
  (hasSchemas /\ pc # "models") =>
    \A e \in DOMAIN allTables :
      LET entry == allTables[e] IN
      IF inSystemSchema(entry) \/ hasSystemPrefix(entry)
      THEN \A k \in DOMAIN emittedStructs :
             emittedStructs[k].Name # tableStructName(entry.Table)
               \/ \E o \in DOMAIN allTables :
                    /\ ~inSystemSchema(allTables[o]) /\ ~hasSystemPrefix(allTables[o])
                    /\ tableStructName(allTables[o].Table) = emittedStructs[k].Name
      ELSE Len(entry.Table.Columns) > 0 =>
             \E k \in DOMAIN emittedStructs :
               /\ emittedStructs[k].Name = tableStructName(entry.Table)
               /\ fieldPerColumn(emittedStructs[k], entry.Table)
               /\ \A o \in DOMAIN emittedStructs :
                    emittedStructs[o].Name = emittedStructs[k].Name => o = k

\* The word after the first place where the words before occur one after
\* the other in words; "" when there is none.
wordAfter(words, before) ==
  LET at == { i \in 1..(Len(words) - Len(before)) :
                SubSeq(words, i, i + Len(before) - 1) = before }
  IN IF at = {} THEN <<>>
     ELSE words[(CHOOSE i \in at : \A j \in at : i <= j) + Len(before)]

\* The owning table by the ranked rules: insertion target, update target,
\* deletion source, primary selection source.
ownerOf(text) ==
  LET ranked(words) ==
        LET inserted == Trim(wordAfter(words, << <<"i","n","s","e","r","t">>, <<"i","n","t","o">> >>), "(")
            updated  == IF Len(words) > 1 /\ words[1] = <<"u","p","d","a","t","e">> THEN words[2] ELSE <<>>
            deleted  == wordAfter(words, << <<"d","e","l","e","t","e">>, <<"f","r","o","m">> >>)
            selected == wordAfter(words, << <<"f","r","o","m">> >>)
        IN IF inserted # <<>> THEN inserted
           ELSE IF updated # <<>> THEN updated
           ELSE IF deleted # <<>> THEN deleted
           ELSE selected
  IN ranked(Fields(ToLower(text)))

facadeName(tableName) == <<"r","e","p","o","s","i","t","o","r","i","e","s","/">> \o toSnakeCase(tableName) \o <<"_","r","e","p","o","s","i","t","o","r","y",".","c","r">>

\* The facade files that hold a method calling the query method name.
facadesOf(name) ==
  { f \in DOMAIN files :
      /\ isFacadeFile(files[f].Name)
      /\ \E k \in DOMAIN files[f].Contents.Methods : files[f].Contents.Methods[k].Callee = name }

\* C19: with facades on, every query is in the facade of the table that the
\* first matching rule names, in the order insertion target, update target,
\* deletion source, selection source, and in no other facade; a query that
\* no rule matches is in no facade and the run still ends with a response.
C19_FacadeOwnerByPriority ==
  (pc = "done" /\ options.GenerateRepositories) =>
    \A i \in DOMAIN req.Queries :
      LET placed(owner, name) ==
            IF owner = <<>> THEN facadesOf(name) = {}
            ELSE /\ facadesOf(name) # {}
                 /\ \A f \in facadesOf(name) : files[f].Name = facadeName(owner)
      IN placed(ownerOf(req.Queries[i].Text), toSnakeCase(req.Queries[i].Name))

\* C19 witness: a statement that deletes from books inside an insertion
\* into archive is in the facade of archive, next to a call that matches no
\* rule.
C19_Witness ==
  /\ pc = "done" /\ options.GenerateRepositories
  /\ \E i, j \in DOMAIN req.Queries :
       /\ req.Queries[i].Text = sqlMoveBooks
       /\ \E f \in facadesOf(<<"m","o","v","e","_","b","o","o","k","s">>) : files[f].Name = <<"r","e","p","o","s","i","t","o","r","i","e","s","/","a","r","c","h","i","v","e","_","r","e","p","o","s","i","t","o","r","y",".","c","r">>
       /\ req.Queries[j].Text = sqlRefresh
       /\ facadesOf(<<"r","e","f","r","e","s","h">>) = {}

----------------------------------------------------------------------------
(* internal/codegen/codegen.go: generate, from the option payload on       *)

\* An option of the payload: absent, true or false.
Tri == { "unset", "true", "false" }

\* req.PluginOptions: no payload, a payload json.Unmarshal rejects, or an
\* object with some of the options.
Payloads ==
  { [ Kind |-> "empty" ], [ Kind |-> "malformed" ] }
    \cup { [ Kind |-> "object", EmitJSONTags |-> j, EmitDBTags |-> d,
             GenerateConnectionManager |-> c, GenerateRepositories |-> r ] :
             j \in Tri, d \in Tri, c \in Tri, r \in Tri }

\* json.Unmarshal into a bool of the zero-valued Options.
unmarshalBool(payload, field) == payload.Kind = "object" /\ payload[field] = "true"

PluginRequests ==
  { [ Engine |-> <<"p","o","s","t","g","r","e","s","q","l">>, HasCatalog |-> c.HasCatalog, Schemas |-> c.Schemas,
      Queries |-> qs, PluginOptions |-> p ] :
      c \in { [ HasCatalog |-> FALSE, Schemas |-> <<>> ],
              [ HasCatalog |-> TRUE,
                Schemas |-> << [ Name |-> <<"p","u","b","l","i","c">>, Tables |-> << TablePool[1] >> ] >> ] },
      qs \in { <<>>, << QueryPool[1] >> },
      p \in Payloads }

\* var options Options
zeroOptions ==
  [ EmitJSONTags |-> FALSE, EmitDBTags |-> FALSE, EmitResultStructPointers |-> FALSE,
    GenerateConnectionManager |-> FALSE, GenerateRepositories |-> FALSE,
    EmitBooleanQuestionGetters |-> FALSE ]

InitPlugin ==
  /\ req \in PluginRequests
  /\ options = zeroOptions
  /\ signatureToStruct = EmptyMap
  /\ structs = EmptyMap
  /\ fieldSignatures = EmptyMap
  /\ pc = "parse"
  /\ idx = 1
  /\ files = <<>>
  /\ queries = <<>>
  /\ prevFiles = <<>>
  /\ call = NoCall

\* codegen.go 29-56: the payload is parsed, EmitDBTags gets its default and
\* the generator is made; a payload that does not parse ends the run.
generate ==
  /\ pc = "parse"
  /\ IF req.PluginOptions.Kind = "malformed"
     THEN /\ pc' = "failed"
          /\ call' = [ pc |-> "error", stage |-> "parse", dropped |-> 0 ]
          /\ UNCHANGED options
     ELSE /\ LET parsed(json, db) ==
                   [ EmitJSONTags |-> json,
                     EmitDBTags |-> IF ~json /\ ~db THEN TRUE ELSE db,
                     EmitResultStructPointers |-> FALSE,
                     GenerateConnectionManager |->
                       unmarshalBool(req.PluginOptions, "GenerateConnectionManager"),
                     GenerateRepositories |->
                       unmarshalBool(req.PluginOptions, "GenerateRepositories"),
                     EmitBooleanQuestionGetters |-> FALSE ]
             IN options' = parsed(unmarshalBool(req.PluginOptions, "EmitJSONTags"),
                                  unmarshalBool(req.PluginOptions, "EmitDBTags"))
          /\ pc' = "models"
          /\ UNCHANGED call
  /\ UNCHANGED << req, signatureToStruct, structs, fieldSignatures, idx, files, queries,
                  prevFiles >>

\* The stage at pc calls its generator, at the point where it renders.
stageRenders ==
  \/ pc = "models" /\ hasSchemas /\ idx = numTables + numQueries + 1 /\ DOMAIN structs # {}
  \/ pc = "queries" /\ numQueries > 0
  \/ pc = "connmgr" /\ options.GenerateConnectionManager
  \/ pc = "repos" /\ options.GenerateRepositories

\* A failing stage that returns the files made so far with its error.
FailStageKeepingFiles ==
  /\ stageRenders
  /\ pc' = "failed"
  /\ call' = [ pc |-> "error", stage |-> pc, dropped |-> 0 ]
  /\ UNCHANGED << req, options, signatureToStruct, structs, fieldSignatures, idx, files,
                  queries, prevFiles >>

\* generator.go 49-51, 60-62, 71-73, 82-84 and codegen.go 59-62: the
\* generator of the stage returns an error; Generate returns nil and the
\* error.
FailStage ==
  /\ stageRenders
  /\ pc' = "failed"
  /\ files' = <<>>
  /\ call' = [ pc |-> "error", stage |-> pc, dropped |-> Len(files) ]
  /\ UNCHANGED << req, options, signatureToStruct, structs, fieldSignatures, idx,
                  queries, prevFiles >>

NextPlugin == generate \/ FailStage \/ Next

SpecPlugin == InitPlugin /\ [][NextPlugin]_vars

\* C17: a run ends with a complete response or with one error and no file;
\* a payload that does not parse gives the error, and a stage that fails
\* returns none of the files of the stages before it.
C17_ResponseOrError ==
  /\ pc = "failed" => (files = <<>> /\ call.pc = "error")
  /\ pc = "done" => call.pc # "error"
  /\ req.PluginOptions.Kind = "malformed" => pc \in { "parse", "failed" }
  /\ pc = "done" =>
       /\ (numQueries > 0) = (fileIndex(<<"q","u","e","r","i","e","s",".","c","r">>) # {})
       /\ options.GenerateConnectionManager = (fileIndex(<<"d","a","t","a","b","a","s","e",".","c","r">>) # {})
       /\ (hasSchemas /\ DOMAIN structs # {}) = (fileIndex(<<"m","o","d","e","l","s",".","c","r">>) # {})

\* C17 witness: the facade stage failed after three files had been made.
C17_Witness ==
  /\ pc = "failed"
  /\ call.stage = "repos"
  /\ call.dropped = 3
  /\ files = <<>>

\* C18: when the payload does not set emit_db_tags, the generator runs
\* with DB tags on, whatever the other options are.
C18_DBTagsDefaultTrue ==
  (pc \notin { "parse", "failed" }
     /\ (req.PluginOptions.Kind = "empty"
           \/ (req.PluginOptions.Kind = "object" /\ req.PluginOptions.EmitDBTags = "unset")))
    => options.EmitDBTags

----------------------------------------------------------------------------
(* The struct registry over the run                                        *)

\* C22: the name recorded for a registered signature never changes in the
\* rest of the run, whatever table, query or later stage comes after.
C22_RegisteredNameStable ==
  [][\A s \in DOMAIN signatureToStruct :
       /\ s \in DOMAIN signatureToStruct'
       /\ signatureToStruct'[s] = signatureToStruct[s]]_vars

\* C24: every struct that no table gave is the struct of a row-returning
\* query (:one or :many) with result columns; a query of another kind
\* registers no struct even when it has result columns.
C24_OnlyRowQueriesGiveStructs ==
  \A n \in DOMAIN structs :
    structs[n].TableName = <<>> =>
      \E i \in DOMAIN req.Queries :
        /\ isRowCmd(req.Queries[i])
        /\ Len(req.Queries[i].Columns) > 0
        /\ queryStructName(req.Queries[i]) = n

\* C26: every struct name in the return type of a query method is the name
\* of a struct of the record-types file of the response.
C26_ReturnedStructsDefined ==
  pc = "done" =>
    \A i \in DOMAIN queries :
      queries[i].ResultStruct # <<>> =>
        \E k \in DOMAIN emittedStructs : emittedStructs[k].Name = queries[i].ResultStruct

----------------------------------------------------------------------------
(* Requests at the edges of the input: result columns that carry a table   *)
(* reference next to embedded tables, a parameter without a column, a       *)
(* single nullable result column, queries of one table whose names share a  *)
(* prefix, a nullable parameter bound before a required one, and a          *)
(* sqlc.slice() parameter on a statement that returns no rows               *)

MaxEdgeQueries == 2

\* A result column that carries a reference to its table.
TableColumn(col, table, alias) ==
  [ col EXCEPT !.TableName = table, !.TableAlias = alias ]

colIds == ParamColumn(<<"i","d","s">>, <<"i","n","t">>, TRUE, FALSE, TRUE)

sqlMixedAuthor   == <<"S","E","L","E","C","T"," ","a","u","t","h","o","r","s",".","i","d",","," ","s","q","l","c",".","e","m","b","e","d","(","a","u","t","h","o","r","s",")"," ","F","R","O","M"," ","a","u","t","h","o","r","s"," ","W","H","E","R","E"," ","i","d"," ","="," ","$","1">>
sqlAuthorTitle   == <<"S","E","L","E","C","T"," ","s","q","l","c",".","e","m","b","e","d","(","a","u","t","h","o","r","s",")",","," ","b",".","t","i","t","l","e"," ","F","R","O","M"," ","a","u","t","h","o","r","s"," ","J","O","I","N"," ","b","o","o","k","s"," ","b"," ","U","S","I","N","G"," ","(","i","d",")">>
sqlFindByArg     == <<"S","E","L","E","C","T"," ","i","d",","," ","n","a","m","e"," ","F","R","O","M"," ","a","u","t","h","o","r","s"," ","W","H","E","R","E"," ","i","d"," ","="," ","$","1">>
sqlGetTitle      == <<"S","E","L","E","C","T"," ","t","i","t","l","e"," ","F","R","O","M"," ","b","o","o","k","s"," ","W","H","E","R","E"," ","i","d"," ","="," ","$","1">>
sqlCreateFull    == <<"I","N","S","E","R","T"," ","I","N","T","O"," ","a","u","t","h","o","r","s"," ","(","i","d",","," ","n","a","m","e",")"," ","V","A","L","U","E","S"," ","(","$","1",","," ","$","2",")"," ","R","E","T","U","R","N","I","N","G"," ","i","d",","," ","n","a","m","e">>
sqlSetTitle      == <<"U","P","D","A","T","E"," ","b","o","o","k","s"," ","S","E","T"," ","t","i","t","l","e"," ","="," ","$","1"," ","W","H","E","R","E"," ","i","d"," ","="," ","$","2">>
sqlTouchTags(engine)  == <<"U","P","D","A","T","E"," ","t","a","g","s"," ","S","E","T"," ","i","d"," ","="," ","i","d"," ","W","H","E","R","E"," ","1">> \o paramCondition(engine, colIds, 1)
sqlInsertTags(engine) == <<"I","N","S","E","R","T"," ","I","N","T","O"," ","t","a","g","s"," ","S","E","L","E","C","T"," ","i","d"," ","F","R","O","M"," ","t","a","g","s"," ","W","H","E","R","E"," ","1">> \o paramCondition(engine, colIds, 1)

EdgeQueryPool(engine) ==
  << Query(<<"M","i","x","e","d","A","u","t","h","o","r">>, <<":","o","n","e">>, sqlMixedAuthor,
           << TableColumn(colId, <<"a","u","t","h","o","r","s">>, <<>>), EmbedColumn(<<"a","u","t","h","o","r","s">>) >>, << Param(1, colId) >>),
     Query(<<"A","u","t","h","o","r","T","i","t","l","e">>, <<":","m","a","n","y">>, sqlAuthorTitle,
           << EmbedColumn(<<"a","u","t","h","o","r","s">>), TableColumn(colTitle, <<"b","o","o","k","s">>, <<"b">>) >>, <<>>),
     Query(<<"F","i","n","d","B","y","A","r","g">>, <<":","o","n","e">>, sqlFindByArg, << colId, colName >>, << Param(1, NilColumn) >>),
     Query(<<"G","e","t","T","i","t","l","e">>, <<":","o","n","e">>, sqlGetTitle, << colTitle >>, << Param(1, colId) >>),
     Query(<<"C","r","e","a","t","e","A","u","t","h","o","r">>, <<":","o","n","e">>, sqlCreateAuthor, << colId, colName >>, << Param(1, colName) >>),
     Query(<<"C","r","e","a","t","e","A","u","t","h","o","r","F","u","l","l">>, <<":","o","n","e">>, sqlCreateFull, << colId, colName >>,
           << Param(1, colId), Param(2, colName) >>),
     Query(<<"S","e","t","T","i","t","l","e">>, <<":","e","x","e","c">>, sqlSetTitle, <<>>, << Param(1, colTitle), Param(2, colId) >>),
     Query(<<"T","o","u","c","h","T","a","g","s">>, <<":","e","x","e","c","r","e","s","u","l","t">>, sqlTouchTags(engine), <<>>, << Param(1, colIds) >>),
     Query(<<"I","n","s","e","r","t","T","a","g","s">>, <<":","e","x","e","c","l","a","s","t","i","d">>, sqlInsertTags(engine), <<>>, << Param(1, colIds) >>),
     Query(<<"G","e","t","A","u","t","h","o","r">>, <<":","o","n","e">>, sqlGetAuthor, << colId, colName >>, << Param(1, colId) >>) >>

EdgeCatalogs ==
  { [ HasCatalog |-> FALSE, Schemas |-> <<>> ],
    [ HasCatalog |-> TRUE,
      Schemas |-> << [ Name |-> <<"p","u","b","l","i","c">>, Tables |-> SubSeq(TablePool, 1, 2) ] >> ] }

EdgeRequests ==
  UNION { { [ Engine |-> engine, HasCatalog |-> c.HasCatalog, Schemas |-> c.Schemas,
              Queries |-> qs ] :
              c \in EdgeCatalogs, qs \in SubSeqsOf(EdgeQueryPool(engine), MaxEdgeQueries) } :
          engine \in { <<"p","o","s","t","g","r","e","s","q","l">>, <<"m","y","s","q","l">> } }

EdgeOptionSets == { GeneratorOptions(FALSE, r, p) : r \in BOOLEAN, p \in BOOLEAN }

InitEdge ==
  /\ req \in EdgeRequests
  /\ options \in EdgeOptionSets
  /\ NewGenerator
  /\ prevFiles = <<>>
  /\ call = NoCall

SpecEdge == InitEdge /\ [][Next]_vars

\* The structs of the models file of the response.
modelStructs ==
  IF \E i \in DOMAIN files : files[i].Name = <<"m","o","d","e","l","s",".","c","r">>
  THEN files[CHOOSE i \in DOMAIN files : files[i].Name = <<"m","o","d","e","l","s",".","c","r">>].Structs
  ELSE <<>>

\* C21: no struct that is registered or written to the models file has
\* zero fields, whether it comes from a table or from a query result.
C21_NoEmptyStruct ==
  /\ \A n \in DOMAIN structs : Len(structs[n].Fields) > 0
  /\ \A k \in DOMAIN modelStructs : Len(modelStructs[k].Fields) > 0

\* C23: a parameter without a column does not end the run: the queries
\* stage returns, and the parameter is named arg<bind position>.
C23_AbsentColumnTolerated ==
  /\ pc # "panicked"
  /\ queriesDone =>
       \A i \in DOMAIN req.Queries : \A j \in DOMAIN req.Queries[i].Params :
         isNilColumn(req.Queries[i].Params[j].Column) =>
           \E k \in DOMAIN queries[i].Params :
             /\ queries[i].Params[k].Position = req.Queries[i].Params[j].Number
             /\ queries[i].Params[k].Name = <<"a","r","g">> \o Itoa(req.Queries[i].Params[j].Number)

\* The facade files of the response.
facadeFiles == { f \in DOMAIN files : isFacadeFile(files[f].Name) }

\* The names that a method of the class Queries declares, in order.
declaredNames(method) == [ p \in DOMAIN method.Signature |-> method.Signature[p].Name ]

\* C25: the positional arguments that a facade method passes are the
\* declared parameters of the query method it calls, in the same order.
C25_FacadeForwardsInDeclaredOrder ==
  pc = "done" =>
    \A f \in facadeFiles : \A k \in DOMAIN files[f].Contents.Methods :
      \A q \in DOMAIN generatedMethods :
        generatedMethods[q].Name = files[f].Contents.Methods[k].Callee =>
          files[f].Contents.Methods[k].Args = declaredNames(generatedMethods[q])

\* C27: the body of every generated method executes its statement, for
\* every command kind and dialect, with or without a sqlc.slice() parameter.
C27_EveryKindExecutes ==
  \A k \in DOMAIN generatedMethods : generatedMethods[k].Exec # "none"

\* A type that ends in one "?" and has no other "?" and no "*".
singleMarker(type) ==
  /\ HasSuffix(type, <<"?">>)
  /\ \A k \in 1..(Len(type) - 1) : type[k] \notin { "?", "*" }

\* C28: the return type of every :one query carries exactly one optional
\* marker.
C28_SingleOptionalMarker ==
  queriesDone =>
    \A i \in DOMAIN queries :
      queries[i].Cmd = <<":","o","n","e">> => singleMarker(queries[i].ReturnType)

\* C29: the method names of one facade are pairwise distinct.
C29_FacadeNamesDistinct ==
  pc = "done" =>
    \A f \in facadeFiles : \A j, k \in DOMAIN files[f].Contents.Methods :
      j # k => files[f].Contents.Methods[j].MethodName # files[f].Contents.Methods[k].MethodName

\* The result column col of query is in the fields: as the nested field of
\* its embedded table or as a scalar field of its own.
columnRepresented(query, col, fields) ==
  LET nested(table) ==
        \E k \in DOMAIN fields : fields[k].Name = toSnakeCase(singularize(table))
  IN IF col.HasEmbed THEN nested(col.EmbedTable)
     ELSE \/ \E k \in DOMAIN fields : fields[k].DBName = col.Name
          \/ /\ col.TableName # <<>>
             /\ \E e \in DOMAIN query.Columns :
                  query.Columns[e].HasEmbed /\ query.Columns[e].EmbedTable = col.TableName
             /\ nested(col.TableName)

\* C30: every result column of a query with embedded tables is represented
\* in the struct built for the query.
C30_EveryColumnRepresented ==
  \A i \in DOMAIN req.Queries :
    LET represented(query, name) ==
          (/\ ~skipsQuery(query)
           /\ hasEmbeds(query)
           /\ name \in DOMAIN structs
           /\ structs[name].TableName = <<>>) =>
            \A c \in DOMAIN query.Columns :
              columnRepresented(query, query.Columns[c], structs[name].Fields)
    IN represented(req.Queries[i], queryStructName(req.Queries[i]))

============================================================================
